---- MODULE Spec2Model ----
(***************************************************************************)
(* Token-addressed WebSocket relay (go_ws_hub, sub-protocol token variant). *)
(* One RelayHub maps tokens to RelaySessions; HandleConnection binds a      *)
(* client connection and a dialled agent connection to a session and starts *)
(* four goroutines: two writePumps, clientReadLoop and agentReadLoop.       *)
(* Every goroutine is a process with its own program counter; mutexes,      *)
(* sync.Once, buffered channels and the context are modelled explicitly.    *)
(***************************************************************************)
EXTENDS Integers, Sequences, FiniteSets, TLC

\* ------------------------------------------------------------------ bounds
NumHandlers == 2      \* invocations of HandleConnection
MaxAgents   == 2      \* agent connections that can be dialled in total
MaxFrames   == 2      \* frames per direction in the routing scenario
MaxQueue    == 2      \* capacity of a send channel (1000 in the source)
MaxCalls    == 2      \* removeSession calls in a row on the Hub alone
MaxChunks   == 3      \* chunks of an upload

\* The environments the model is explored under.  Each gives the number of
\* HandleConnection calls (h), of successful agent dials (g), of frames the
\* browsers (c) and the agents (a) send, of transport write failures that
\* are not caused by a local Close (w), the channel capacity (q), the number
\* of tokens in use (k: connection h carries token number Min(h, k)) and the
\* number of connections whose peers send or fail (f): routing in each
\* direction, connections racing for one token, an agent outage with traffic
\* in both directions, and a session of one token going through all that
\* beside an established session of another token.
Scenarios ==
    { [h |-> 1, g |-> 1, c |-> MaxFrames, a |-> 0, w |-> 0, q |-> MaxQueue,
       k |-> 1, f |-> 1],
      [h |-> 1, g |-> 1, c |-> 0, a |-> MaxFrames, w |-> 0, q |-> MaxQueue,
       k |-> 1, f |-> 1],
      [h |-> NumHandlers, g |-> 1, c |-> 0, a |-> 0, w |-> 0, q |-> 1,
       k |-> 1, f |-> NumHandlers],
      [h |-> 1, g |-> MaxAgents, c |-> 1, a |-> 1, w |-> 1, q |-> 1,
       k |-> 1, f |-> 1],
      [h |-> NumHandlers, g |-> MaxAgents, c |-> 1, a |-> 0, w |-> 0, q |-> 1,
       k |-> 2, f |-> 1] }

\* ------------------------------------------------------- program constants
MaxAgentRetries == 3
InitialRetryInterval == 1            \* in seconds

Handlers == 1 .. NumHandlers
Sess     == Handlers                 \* the session handler h creates is h
ClientEps == Handlers                \* the client connection of handler h is h
AgentEps == (NumHandlers + 1) .. (NumHandlers + MaxAgents)
Eps      == ClientEps \cup AgentEps
TokenSeq == <<"abc", "xyz">>
Tokens   == {TokenSeq[i] : i \in 1 .. Len(TokenSeq)}
TokenInputs == Tokens \cup {""}
Tasks    == {"C", "A"} \X Handlers   \* clientReadLoop / agentReadLoop of h

\* ---------------------------------------------------------------- messages
TextMessage   == "text"
BinaryMessage == "binary"

MessageTypeRequest  == "request"
MessageTypeResponse == "response"
MessageTypeNotify   == "notify"
MessageTypePing     == "ping"
MessageTypePong     == "pong"
MessageTypeLocal    == "local"
MessageTypeRemote   == "remote"

\* A frame: its websocket type and its bytes.  raw is the text itself for a
\* bare literal and "json" for a JSON object, whose members are t, r, a, d.
Frame(mt, raw, t, r, a, d) ==
    [mt |-> mt, raw |-> raw, t |-> t, r |-> r, a |-> a, d |-> d]
Bare(raw)        == Frame(TextMessage, raw, "", "", "", <<>>)
Json(t, r, a, d) == Frame(TextMessage, "json", t, r, a, d)
NoMsg            == Frame("none", "", "", "", "", <<>>)

ClientInputs ==
    { Bare("ping"), Bare(" ping\n"), Bare("junk"),
      Frame(BinaryMessage, "junk", "", "", "", <<>>),
      Json(MessageTypeRequest, "r1", MessageTypeLocal, <<"z">>),
      Json(MessageTypeRequest, "r2", MessageTypeRemote, <<"x">>),
      Json(MessageTypePing, "", "", <<>>) }

AgentInputs ==
    { Bare("ping"), Bare("junk"),
      Frame(BinaryMessage, "junk", "", "", "", <<>>),
      Json(MessageTypeResponse, "r2", "", <<"y">>),
      Json(MessageTypePing, "", "", <<>>) }

\* strings.TrimSpace(string(data))
TrimSpace(raw) == IF raw = " ping\n" THEN "ping" ELSE raw

IsKeepaliveNever(m) == FALSE
\* strings.TrimSpace(string(data)) == MessageTypePing
IsKeepalive(m) == TrimSpace(m.raw) = MessageTypePing

\* json.Unmarshal(data, &msg): err == nil
UnmarshalOk(m) == m.raw = "json"

IsLocalNever(m) == FALSE
\* msg.Action == MessageTypeLocal
IsLocal(m) == m.a = MessageTypeLocal

\* json.Marshal of a WebSocketMessage the relay builds
Notify(action, text) == Json(MessageTypeNotify, "", action, <<text>>)
NoteReconnecting == Notify("reconnecting", "Agent connection is reconnecting, please wait")
NoteSuccess      == Notify("reconnect_success", "Agent connection re-established")
NoteExit         == Notify("exit", "Agent connection lost after maximum retries")
Pong             == Bare(MessageTypePong)

\* handleLocal's response: Type response, the request's id, the data embedded
LocalResponse(m) ==
    Json(MessageTypeResponse, m.r, "", <<"Local processing result for data: ">> \o m.d)

ForwardPayloadReencoded(m) == Json(m.t, m.r, m.a, <<>>)
\* s.agent.send <- data / s.client.send <- data: the bytes as read
ForwardPayload(m) == m

\* A queue entry: the frame, whether it is forwarded or made by the relay, and
\* for a forwarded frame its read index in its direction.
Item(m, via, n) == [m |-> m, via |-> via, n |-> n]
NoItem == Item(NoMsg, "none", 0)

EnqueueTwice(q, it) == q \o <<it, it>>
EnqueueFront(q, it) == <<it>> \o q
\* ch <- it on a buffered channel
Enqueue(q, it) == Append(q, it)

\* ------------------------------------------------------------------- state
VARIABLES
    hub,        \* RelayHub.sessions: token -> session (0: no entry)
    stoken,     \* RelaySession.token ("" : the session object does not exist)
    sclient,    \* RelaySession.client (0: nil)
    sagent,     \* RelaySession.agent (0: nil)
    sctx,       \* RelaySession.ctx: "nil", "live", "cancelled"
    reconn,     \* RelaySession.agentReconnecting
    once,       \* RelaySession.once: 0 unused, 1 running, 2 done
    cmu, amu,   \* RelaySession.clientMu / agentMu held
    hpc, hsess, \* HandleConnection h: position, session it obtained
    pc,         \* position of each read loop
    msg,        \* the frame a read loop is handling
    cur,        \* connection a loop reads: s.client at the read / curAgent
    retry,      \* agentReadLoop's retryCount
    send,       \* the send channel of each connection
    chClosed,   \* close(send) was called
    closes,     \* number of conn.Close() calls on the transport
    direct,     \* frames written on the transport outside the writePump
    wpc,        \* writePump: "off", "run", "done"
    rdErr,      \* the connection's (permanent) read error
    lastW,      \* read index of the last forwarded frame written
    nextEp,     \* next agent connection to allocate
    nC, nA,     \* frames read from clients / agents so far
    nWErr,      \* spontaneous write failures so far
    lim,        \* the scenario: what the environment may still do
    panicked,   \* a goroutine panicked: the process is gone
    notes,      \* per session: notifications enqueued to the client, in order
    bodyRuns,   \* per session: executions of cleanup's body
    removes,    \* per session: removeSession calls made by its cleanup
    cleared,    \* per session: connections its cleanup closed and cleared
    dfail,      \* per agent loop: consecutive failed redials
    exh,        \* per agent loop: it took the retry-exhaustion branch
    hcall,      \* a removeSession call made on the Hub alone: its token,
                \* the map before it, how many times it was made
    prog,       \* the upload program running: "sftp", "cmd", "local"
    stored,     \* indices of the chunks stored in the temporary directory
    merged,     \* the final file: the chunks it is made of, in order
    mres        \* the last merge response: status, total requested

svars == <<hub, stoken, sclient, sagent, sctx, reconn, once, cmu, amu>>
hvars == <<hpc, hsess>>
tvars == <<pc, msg, cur, retry>>
evars == <<send, chClosed, closes, direct, wpc, rdErr, lastW>>
bvars == <<nextEp, nC, nA, nWErr, lim>>
gvars == <<panicked, notes, bodyRuns, removes, cleared, dfail, exh>>
xvars == <<hcall, prog, stored, merged, mres>>
vars  == <<svars, hvars, tvars, evars, bvars, gvars, xvars>>

C(h) == <<"C", h>>
A(h) == <<"A", h>>

\* No call on the Hub alone, no upload program
NoCall == [token |-> "", before |-> <<>>, n |-> 0]
NoMerge == [status |-> "none", total |-> 0]
RelayOnly ==
    /\ hcall = NoCall
    /\ prog = "none"
    /\ stored = {}
    /\ merged = <<>>
    /\ mres = NoMerge

\* Everything of the relay but the Hub's map and the scenario
InitRelay ==
    /\ sclient = [s \in Sess |-> 0]
    /\ sagent = [s \in Sess |-> 0]
    /\ sctx = [s \in Sess |-> "nil"]
    /\ reconn = [s \in Sess |-> FALSE]
    /\ once = [s \in Sess |-> 0]
    /\ cmu = [s \in Sess |-> FALSE]
    /\ amu = [s \in Sess |-> FALSE]
    /\ hpc = [h \in Handlers |-> "idle"]
    /\ hsess = [h \in Handlers |-> 0]
    /\ pc = [t \in Tasks |-> "off"]
    /\ msg = [t \in Tasks |-> NoItem]
    /\ cur = [t \in Tasks |-> 0]
    /\ retry = [h \in Handlers |-> 0]
    /\ send = [e \in Eps |-> <<>>]
    /\ chClosed = [e \in Eps |-> FALSE]
    /\ closes = [e \in Eps |-> 0]
    /\ direct = [e \in Eps |-> 0]
    /\ wpc = [e \in Eps |-> "off"]
    /\ rdErr = [e \in Eps |-> FALSE]
    /\ lastW = [e \in Eps |-> 0]
    /\ nextEp = NumHandlers + 1
    /\ nC = 0
    /\ nA = 0
    /\ nWErr = 0
    /\ panicked = FALSE
    /\ notes = [s \in Sess |-> <<>>]
    /\ bodyRuns = [s \in Sess |-> 0]
    /\ removes = [s \in Sess |-> 0]
    /\ cleared = [s \in Sess |-> {}]
    /\ dfail = [h \in Handlers |-> 0]
    /\ exh = [h \in Handlers |-> FALSE]

Init ==
    /\ hub = [t \in Tokens |-> 0]
    /\ stoken = [s \in Sess |-> ""]
    /\ lim \in Scenarios
    /\ InitRelay
    /\ RelayOnly

\* ------------------------------------------------------------------- hub
GetSessionAlwaysNew(tok, fresh) == fresh
\* RelayHub.getSession: the session the call returns, fresh when none exists
GetSession(tok, fresh) == IF hub[tok] # 0 THEN hub[tok] ELSE fresh

RemoveSessionFlip(h0, tok) == [h0 EXCEPT ![tok] = IF @ = 0 THEN 1 ELSE 0]
\* RelayHub.removeSession: delete(h.sessions, token)
RemoveSession(h0, tok) == [h0 EXCEPT ![tok] = 0]

RejectTargetBound(h, s) == sclient[s]
\* clientConn.WriteMessage(...) on rejection: the connection being rejected
RejectTarget(h, s) == h

ClientAlreadyBoundNever(s) == FALSE
\* HandleConnection: session.client != nil
ClientAlreadyBound(s) == sclient[s] # 0

\* ------------------------------------------------- HandleConnection
MissingTokenProceed == "bind"
\* token == "": the 400 "missing token" response is returned
MissingTokenReturn == "done_missing"

\* token check, upgrade, getSession
HandleStart(h, tok) ==
    /\ ~panicked
    /\ hpc[h] = "idle"
    /\ h <= lim.h
    /\ tok \in {"", TokenSeq[IF h < lim.k THEN h ELSE lim.k]}
    /\ \A h2 \in Handlers : h2 < h => hpc[h2] # "idle"
    /\ IF tok = ""
       THEN /\ hpc' = [hpc EXCEPT ![h] = MissingTokenReturn]
            /\ UNCHANGED <<svars, hsess>>
       ELSE LET s == GetSession(tok, h) IN
            /\ hub' = [hub EXCEPT ![tok] = s]
            /\ stoken' = [stoken EXCEPT ![s] = tok]
            /\ hsess' = [hsess EXCEPT ![h] = s]
            /\ hpc' = [hpc EXCEPT ![h] = "bind"]
            /\ UNCHANGED <<sclient, sagent, sctx, reconn, once, cmu, amu>>
    /\ UNCHANGED <<tvars, evars, bvars, xvars, gvars>>

\* the clientMu section: reject a second client or bind this one; then the
\* context is created if the session has none
HandleBind(h) ==
    /\ ~panicked
    /\ hpc[h] = "bind"
    /\ LET s == hsess[h] IN
       /\ ~cmu[s]
       /\ IF ClientAlreadyBound(s)
          THEN /\ direct' = [direct EXCEPT ![RejectTarget(h, s)] = @ + 1]
               /\ closes' = [closes EXCEPT ![h] = @ + 1]
               /\ hpc' = [hpc EXCEPT ![h] = "done_dup"]
               /\ UNCHANGED <<sclient, sctx>>
          ELSE /\ sclient' = [sclient EXCEPT ![s] = h]
               /\ sctx' = [sctx EXCEPT ![s] = IF @ = "nil" THEN "live" ELSE @]
               /\ hpc' = [hpc EXCEPT ![h] = "dial"]
               /\ UNCHANGED <<direct, closes>>
    /\ UNCHANGED <<hub, stoken, sagent, reconn, once, cmu, amu, hsess, tvars,
                   send, chClosed, wpc, rdErr, lastW, bvars, xvars, gvars>>

\* the initial dial fails: clientConn.Close(), return err
HandleDialFail(h) ==
    /\ ~panicked
    /\ hpc[h] = "dial"
    /\ closes' = [closes EXCEPT ![h] = @ + 1]
    /\ hpc' = [hpc EXCEPT ![h] = "done_dialfail"]
    /\ UNCHANGED <<svars, hsess, tvars, send, chClosed, direct, wpc, rdErr,
                   lastW, bvars, xvars, gvars>>

\* the initial dial succeeds: session.agent is set under agentMu and the four
\* goroutines are started
HandleDialOk(h) ==
    /\ ~panicked
    /\ hpc[h] = "dial"
    /\ nextEp \in AgentEps
    /\ nextEp - NumHandlers <= lim.g
    /\ LET s == hsess[h] IN
       /\ ~amu[s]
       /\ sagent' = [sagent EXCEPT ![s] = nextEp]
    /\ wpc' = [wpc EXCEPT ![h] = "run", ![nextEp] = "run"]
    /\ pc' = [pc EXCEPT ![C(h)] = "top", ![A(h)] = "top"]
    /\ nextEp' = nextEp + 1
    /\ hpc' = [hpc EXCEPT ![h] = "done_ok"]
    /\ UNCHANGED <<hub, stoken, sclient, sctx, reconn, once, cmu, amu, hsess,
                   msg, cur, retry, send, chClosed, closes, direct, rdErr,
                   lastW, nC, nA, nWErr, lim, xvars, gvars>>

\* ------------------------------------------------------------ writePump
\* close frames the pump of e writes when its range loop ends: the pump has
\* no WriteMessage(websocket.CloseMessage, ...), only the deferred Close
CloseFrames(e) == 0

\* for msg := range c.send { WriteMessage(msg) }: a frame is written
WriterWrite(e) ==
    /\ ~panicked
    /\ wpc[e] = "run"
    /\ send[e] # <<>>
    /\ closes[e] = 0
    /\ send' = [send EXCEPT ![e] = Tail(@)]
    /\ lastW' = [lastW EXCEPT ![e] =
                    IF Head(send[e]).via = "fwd" THEN Head(send[e]).n ELSE @]
    /\ UNCHANGED <<svars, hvars, tvars, chClosed, closes, direct, wpc, rdErr,
                   bvars, xvars, gvars>>

\* WriteMessage returns an error (the transport is closed, or it fails on its
\* own): the pump returns and its deferred conn.Close() runs
WriterFail(e) ==
    /\ ~panicked
    /\ wpc[e] = "run"
    /\ send[e] # <<>>
    /\ IF closes[e] > 0
       THEN nWErr' = nWErr
       ELSE nWErr < lim.w /\ nWErr' = nWErr + 1
    /\ send' = [send EXCEPT ![e] = Tail(@)]
    /\ closes' = [closes EXCEPT ![e] = @ + 1]
    /\ wpc' = [wpc EXCEPT ![e] = "done"]
    /\ UNCHANGED <<svars, hvars, tvars, chClosed, direct, rdErr, lastW,
                   nextEp, nC, nA, lim, xvars, gvars>>

\* the channel is closed and drained: the range loop ends and the deferred
\* conn.Close() runs
WriterExit(e) ==
    /\ ~panicked
    /\ wpc[e] = "run"
    /\ send[e] = <<>>
    /\ chClosed[e]
    /\ closes' = [closes EXCEPT ![e] = @ + 1]
    /\ wpc' = [wpc EXCEPT ![e] = "done"]
    /\ UNCHANGED <<svars, hvars, tvars, send, chClosed, direct, rdErr, lastW,
                   bvars, xvars, gvars>>

\* ------------------------------------------------------- channel sends
\* Positions at which a loop is blocked in a channel send while it holds
\* clientMu (WaitC) or agentMu (WaitA), and what it is sending there.
WaitC == {"local_w", "fwdc_w", "succ_w", "exit_w"}
WaitA == {"fwd_w", "pong_w"}

PendingItem(t) ==
    CASE pc[t] = "local_w" -> Item(LocalResponse(msg[t].m), "relay", 0)
      [] pc[t] = "fwdc_w"  -> Item(ForwardPayload(msg[t].m), "fwd", msg[t].n)
      [] pc[t] = "succ_w"  -> Item(NoteSuccess, "relay", 0)
      [] pc[t] = "exit_w"  -> Item(NoteExit, "relay", 0)
      [] pc[t] = "fwd_w"   -> Item(ForwardPayload(msg[t].m), "fwd", msg[t].n)
      [] pc[t] = "pong_w"  -> Item(Pong, "relay", 0)
      [] OTHER             -> NoItem

NoteOf(it) == IF it.m.t = MessageTypeNotify /\ it.via = "relay" THEN it.m.a ELSE ""

AfterSendStay(p) == p
\* where a loop goes after a send: cleanup after "exit", else continue
AfterSend(p) == IF p \in {"exit", "exit_w"} THEN "cl_once" ELSE "top"

Noted(s, it) ==
    IF NoteOf(it) = "" THEN notes ELSE [notes EXCEPT ![s] = Append(@, NoteOf(it))]

\* mu.Lock(); if s.client != nil { s.client.send <- it }; mu.Unlock()
\* taken in one step when the channel has room; otherwise the sender keeps
\* the mutex and waits at position w
LockedSendC(t, s, it, w) ==
    LET e == sclient[s] IN
    /\ ~cmu[s]
    /\ IF e = 0
       THEN /\ pc' = [pc EXCEPT ![t] = AfterSend(pc[t])]
            /\ msg' = [msg EXCEPT ![t] = NoItem]
            /\ UNCHANGED <<send, cmu, notes, panicked>>
       ELSE IF chClosed[e]
       THEN /\ panicked' = TRUE
            /\ UNCHANGED <<pc, msg, send, cmu, notes>>
       ELSE IF Len(send[e]) < lim.q
       THEN /\ send' = [send EXCEPT ![e] = Enqueue(@, it)]
            /\ notes' = Noted(s, it)
            /\ pc' = [pc EXCEPT ![t] = AfterSend(pc[t])]
            /\ msg' = [msg EXCEPT ![t] = NoItem]
            /\ UNCHANGED <<cmu, panicked>>
       ELSE /\ cmu' = [cmu EXCEPT ![s] = TRUE]
            /\ pc' = [pc EXCEPT ![t] = w]
            /\ UNCHANGED <<msg, send, notes, panicked>>

LockedSendA(t, s, it, w) ==
    LET e == sagent[s] IN
    /\ ~amu[s]
    /\ IF e = 0
       THEN /\ pc' = [pc EXCEPT ![t] = "top"]
            /\ msg' = [msg EXCEPT ![t] = NoItem]
            /\ UNCHANGED <<send, amu, panicked>>
       ELSE IF chClosed[e]
       THEN /\ panicked' = TRUE
            /\ UNCHANGED <<pc, msg, send, amu>>
       ELSE IF Len(send[e]) < lim.q
       THEN /\ send' = [send EXCEPT ![e] = Enqueue(@, it)]
            /\ pc' = [pc EXCEPT ![t] = "top"]
            /\ msg' = [msg EXCEPT ![t] = NoItem]
            /\ UNCHANGED <<amu, panicked>>
       ELSE /\ amu' = [amu EXCEPT ![s] = TRUE]
            /\ pc' = [pc EXCEPT ![t] = w]
            /\ UNCHANGED <<msg, send, panicked>>

\* s.client.send <- it with no mutex held (clientReadLoop's pong and
\* "reconnecting"): a nil s.client or a closed channel panics
UnlockedSendC(t, s, it) ==
    LET e == sclient[s] IN
    IF e = 0 \/ chClosed[e]
    THEN /\ panicked' = TRUE
         /\ UNCHANGED <<pc, msg, send, notes>>
    ELSE /\ Len(send[e]) < lim.q
         /\ send' = [send EXCEPT ![e] = Enqueue(@, it)]
         /\ notes' = Noted(s, it)
         /\ pc' = [pc EXCEPT ![t] = "top"]
         /\ msg' = [msg EXCEPT ![t] = NoItem]
         /\ UNCHANGED panicked

\* a sender blocked under clientMu gets room: it sends and unlocks
BlockedSendC(t) ==
    /\ ~panicked
    /\ pc[t] \in WaitC
    /\ LET s == hsess[t[2]]
           e == sclient[s] IN
       /\ Len(send[e]) < lim.q
       /\ send' = [send EXCEPT ![e] = Enqueue(@, PendingItem(t))]
       /\ notes' = Noted(s, PendingItem(t))
       /\ cmu' = [cmu EXCEPT ![s] = FALSE]
    /\ pc' = [pc EXCEPT ![t] = AfterSend(pc[t])]
    /\ msg' = [msg EXCEPT ![t] = NoItem]
    /\ UNCHANGED <<hub, stoken, sclient, sagent, sctx, reconn, once, amu, hvars,
                   cur, retry, chClosed, closes, direct, wpc, rdErr, lastW,
                   bvars, xvars, panicked, bodyRuns, removes, cleared, dfail, exh>>

\* a sender blocked under agentMu gets room: it sends and unlocks
BlockedSendA(t) ==
    /\ ~panicked
    /\ pc[t] \in WaitA
    /\ LET s == hsess[t[2]]
           e == sagent[s] IN
       /\ Len(send[e]) < lim.q
       /\ send' = [send EXCEPT ![e] = Enqueue(@, PendingItem(t))]
       /\ amu' = [amu EXCEPT ![s] = FALSE]
    /\ pc' = [pc EXCEPT ![t] = "top"]
    /\ msg' = [msg EXCEPT ![t] = NoItem]
    /\ UNCHANGED <<hub, stoken, sclient, sagent, sctx, reconn, once, cmu, hvars,
                   cur, retry, chClosed, closes, direct, wpc, rdErr, lastW,
                   bvars, xvars, gvars>>

\* ------------------------------------------------------ clientReadLoop
\* select { case <-s.ctx.Done(): return; default: }
ClientTop(h) ==
    /\ ~panicked
    /\ pc[C(h)] = "top"
    /\ pc' = [pc EXCEPT ![C(h)] =
                 IF sctx[hsess[h]] = "cancelled" THEN "cl_once" ELSE "deref"]
    /\ msg' = [msg EXCEPT ![C(h)] = NoItem]
    /\ UNCHANGED <<svars, hvars, cur, retry, evars, bvars, xvars, gvars>>

\* s.client.conn is evaluated (no mutex) and ReadMessage blocks on it
ClientDeref(h) ==
    /\ ~panicked
    /\ pc[C(h)] = "deref"
    /\ IF sclient[hsess[h]] = 0
       THEN /\ panicked' = TRUE
            /\ UNCHANGED <<pc, cur>>
       ELSE /\ cur' = [cur EXCEPT ![C(h)] = sclient[hsess[h]]]
            /\ pc' = [pc EXCEPT ![C(h)] = "read"]
            /\ UNCHANGED panicked
    /\ UNCHANGED <<svars, hvars, msg, retry, evars, bvars, xvars, notes, bodyRuns,
                   removes, cleared, dfail, exh>>

\* where clientReadLoop goes with a frame it has read
ClientDispatch(m) ==
    IF m.mt # TextMessage THEN "top"
    ELSE IF IsKeepalive(m) THEN "pong"
    ELSE IF ~UnmarshalOk(m) THEN "top"
    ELSE IF IsLocal(m) THEN "local"
    ELSE "chk"

\* ReadMessage returns a frame
ClientRecv(h, m) ==
    /\ ~panicked
    /\ pc[C(h)] = "read"
    /\ h <= lim.f
    /\ closes[cur[C(h)]] = 0
    /\ ~rdErr[cur[C(h)]]
    /\ nC < lim.c
    /\ nC' = nC + 1
    /\ pc' = [pc EXCEPT ![C(h)] = ClientDispatch(m)]
    /\ msg' = [msg EXCEPT ![C(h)] = Item(m, "read", nC + 1)]
    /\ cur' = [cur EXCEPT ![C(h)] = 0]
    /\ UNCHANGED <<svars, hvars, retry, evars, nextEp, nA, nWErr, lim, xvars, gvars>>

\* ReadMessage returns an error (the peer is gone or the transport was
\* closed): break, and the deferred cleanup runs
ClientReadErr(h) ==
    /\ ~panicked
    /\ pc[C(h)] = "read"
    /\ h <= lim.f \/ closes[cur[C(h)]] > 0
    /\ rdErr' = [rdErr EXCEPT ![cur[C(h)]] = TRUE]
    /\ pc' = [pc EXCEPT ![C(h)] = "cl_once"]
    /\ cur' = [cur EXCEPT ![C(h)] = 0]
    /\ UNCHANGED <<svars, hvars, msg, retry, send, chClosed, closes, direct,
                   wpc, lastW, bvars, xvars, gvars>>

\* s.client.send <- []byte(MessageTypePong)
ClientPong(h) ==
    /\ ~panicked
    /\ pc[C(h)] = "pong"
    /\ UnlockedSendC(C(h), hsess[h], Item(Pong, "relay", 0))
    /\ UNCHANGED <<svars, hvars, cur, retry, chClosed, closes, direct, wpc,
                   rdErr, lastW, bvars, xvars, bodyRuns, removes, cleared, dfail, exh>>

\* s.handleLocal(msg)
ClientLocal(h) ==
    /\ ~panicked
    /\ pc[C(h)] = "local"
    /\ LockedSendC(C(h), hsess[h],
                   Item(LocalResponse(msg[C(h)].m), "relay", 0), "local_w")
    /\ UNCHANGED <<hub, stoken, sclient, sagent, sctx, reconn, once, amu, hvars,
                   cur, retry, chClosed, closes, direct, wpc, rdErr, lastW,
                   bvars, xvars, bodyRuns, removes, cleared, dfail, exh>>

IsReconnectingNever(s) == FALSE
\* reconnecting := s.agentReconnecting (under stateMu)
IsReconnecting(s) == reconn[s]

\* if reconnecting { ... } else { forward }
ClientCheck(h) ==
    /\ ~panicked
    /\ pc[C(h)] = "chk"
    /\ pc' = [pc EXCEPT ![C(h)] =
                 IF IsReconnecting(hsess[h]) THEN "notify" ELSE "fwd"]
    /\ UNCHANGED <<svars, hvars, msg, cur, retry, evars, bvars, xvars, gvars>>

\* s.client.send <- the "reconnecting" notification; the frame is dropped
ClientNotify(h) ==
    /\ ~panicked
    /\ pc[C(h)] = "notify"
    /\ UnlockedSendC(C(h), hsess[h], Item(NoteReconnecting, "relay", 0))
    /\ UNCHANGED <<svars, hvars, cur, retry, chClosed, closes, direct, wpc,
                   rdErr, lastW, bvars, xvars, bodyRuns, removes, cleared, dfail, exh>>

\* s.agentMu.Lock(); if s.agent != nil { s.agent.send <- data }
ClientForward(h) ==
    /\ ~panicked
    /\ pc[C(h)] = "fwd"
    /\ LockedSendA(C(h), hsess[h],
                   Item(ForwardPayload(msg[C(h)].m), "fwd", msg[C(h)].n), "fwd_w")
    /\ UNCHANGED <<hub, stoken, sclient, sagent, sctx, reconn, once, cmu, hvars,
                   cur, retry, chClosed, closes, direct, wpc, rdErr, lastW,
                   bvars, xvars, notes, bodyRuns, removes, cleared, dfail, exh>>

\* ------------------------------------------------------- agentReadLoop
\* select { case <-s.ctx.Done(): return; default: }
AgentTop(h) ==
    /\ ~panicked
    /\ pc[A(h)] = "top"
    /\ pc' = [pc EXCEPT ![A(h)] =
                 IF sctx[hsess[h]] = "cancelled" THEN "ret" ELSE "getagent"]
    /\ msg' = [msg EXCEPT ![A(h)] = NoItem]
    /\ UNCHANGED <<svars, hvars, cur, retry, evars, bvars, xvars, gvars>>

\* curAgent := s.agent under agentMu; a nil agent ends the loop
AgentGet(h) ==
    /\ ~panicked
    /\ pc[A(h)] = "getagent"
    /\ ~amu[hsess[h]]
    /\ cur' = [cur EXCEPT ![A(h)] = sagent[hsess[h]]]
    /\ pc' = [pc EXCEPT ![A(h)] = IF sagent[hsess[h]] = 0 THEN "ret" ELSE "read"]
    /\ UNCHANGED <<svars, hvars, msg, retry, evars, bvars, xvars, gvars>>

\* where agentReadLoop goes with a frame it has read
AgentDispatch(m) ==
    IF m.mt # TextMessage THEN "top"
    ELSE IF IsKeepalive(m) THEN "pong"
    ELSE "fwdc"

\* curAgent.conn.ReadMessage() returns a frame: retryCount = 0
AgentRecv(h, m) ==
    /\ ~panicked
    /\ pc[A(h)] = "read"
    /\ h <= lim.f
    /\ closes[cur[A(h)]] = 0
    /\ ~rdErr[cur[A(h)]]
    /\ nA < lim.a
    /\ nA' = nA + 1
    /\ retry' = [retry EXCEPT ![h] = 0]
    /\ pc' = [pc EXCEPT ![A(h)] = AgentDispatch(m)]
    /\ msg' = [msg EXCEPT ![A(h)] = Item(m, "read", nA + 1)]
    /\ cur' = [cur EXCEPT ![A(h)] = 0]
    /\ UNCHANGED <<svars, hvars, evars, nextEp, nC, nWErr, lim, xvars, gvars>>

RECURSIVE Pow2(_)
\* math.Pow(2, k) for the exponents the loop can reach
Pow2(k) == IF k <= 0 THEN 1 ELSE 2 * Pow2(k - 1)

\* waitTime := time.Duration(math.Pow(2, float64(retryCount-1))) *
\* InitialRetryInterval: the sleep before the dial made at retryCount r
WaitTime(r) == Pow2(r - 1) * InitialRetryInterval

RetryExhaustedEarly(r) == r >= MaxAgentRetries
RetryExhaustedLate(r) == r > MaxAgentRetries + 1
\* retryCount > MaxAgentRetries
RetryExhausted(r) == r > MaxAgentRetries

\* curAgent.conn.ReadMessage() returns an error: retryCount++, then either the
\* exhaustion branch or s.agentReconnecting = true and the backoff sleep
AgentReadErr(h) ==
    /\ ~panicked
    /\ pc[A(h)] = "read"
    /\ h <= lim.f \/ closes[cur[A(h)]] > 0
    /\ LET s == hsess[h] IN
       /\ rdErr' = [rdErr EXCEPT ![cur[A(h)]] = TRUE]
       /\ retry' = [retry EXCEPT ![h] = @ + 1]
       /\ notes' = IF reconn[s] THEN notes ELSE [notes EXCEPT ![s] = Append(@, "err")]
       /\ IF RetryExhausted(retry[h] + 1)
          THEN /\ pc' = [pc EXCEPT ![A(h)] = "exit"]
               /\ exh' = [exh EXCEPT ![h] = TRUE]
               /\ UNCHANGED reconn
          ELSE /\ pc' = [pc EXCEPT ![A(h)] = "dial"]
               /\ reconn' = [reconn EXCEPT ![s] = TRUE]
               /\ UNCHANGED exh
    /\ cur' = [cur EXCEPT ![A(h)] = 0]
    /\ UNCHANGED <<hub, stoken, sclient, sagent, sctx, once, cmu, amu, hvars,
                   msg, send, chClosed, closes, direct, wpc, lastW, bvars, xvars,
                   panicked, bodyRuns, removes, cleared, dfail>>

\* the "exit" notification under clientMu, then time.Sleep and s.cleanup()
AgentExit(h) ==
    /\ ~panicked
    /\ pc[A(h)] = "exit"
    /\ LockedSendC(A(h), hsess[h], Item(NoteExit, "relay", 0), "exit_w")
    /\ UNCHANGED <<hub, stoken, sclient, sagent, sctx, reconn, once, amu, hvars,
                   cur, retry, chClosed, closes, direct, wpc, rdErr, lastW,
                   bvars, xvars, bodyRuns, removes, cleared, dfail, exh>>

\* the redial after the backoff sleep fails: continue
AgentDialFail(h) ==
    /\ ~panicked
    /\ pc[A(h)] = "dial"
    /\ pc' = [pc EXCEPT ![A(h)] = "top"]
    /\ dfail' = [dfail EXCEPT ![h] = @ + 1]
    /\ UNCHANGED <<svars, hvars, msg, cur, retry, evars, bvars, xvars, panicked,
                   notes, bodyRuns, removes, cleared, exh>>

\* the redial succeeds: newAgent's writePump is started and s.agent is
\* replaced under agentMu (the replaced connection is left as it is)
AgentDialOk(h) ==
    /\ ~panicked
    /\ pc[A(h)] = "dial"
    /\ nextEp \in AgentEps
    /\ nextEp - NumHandlers <= lim.g
    /\ ~amu[hsess[h]]
    /\ sagent' = [sagent EXCEPT ![hsess[h]] = nextEp]
    /\ wpc' = [wpc EXCEPT ![nextEp] = "run"]
    /\ nextEp' = nextEp + 1
    /\ pc' = [pc EXCEPT ![A(h)] = "clear"]
    /\ dfail' = [dfail EXCEPT ![h] = 0]
    /\ UNCHANGED <<hub, stoken, sclient, sctx, reconn, once, cmu, amu, hvars,
                   msg, cur, retry, send, chClosed, closes, direct, rdErr,
                   lastW, nC, nA, nWErr, lim, xvars, panicked, notes, bodyRuns, removes,
                   cleared, exh>>

\* s.agentReconnecting = false (under stateMu)
AgentClear(h) ==
    /\ ~panicked
    /\ pc[A(h)] = "clear"
    /\ reconn' = [reconn EXCEPT ![hsess[h]] = FALSE]
    /\ pc' = [pc EXCEPT ![A(h)] = "succ"]
    /\ UNCHANGED <<hub, stoken, sclient, sagent, sctx, once, cmu, amu, hvars,
                   msg, cur, retry, evars, bvars, xvars, gvars>>

\* the "reconnect_success" notification under clientMu
AgentSuccess(h) ==
    /\ ~panicked
    /\ pc[A(h)] = "succ"
    /\ LockedSendC(A(h), hsess[h], Item(NoteSuccess, "relay", 0), "succ_w")
    /\ UNCHANGED <<hub, stoken, sclient, sagent, sctx, reconn, once, amu, hvars,
                   cur, retry, chClosed, closes, direct, wpc, rdErr, lastW,
                   bvars, xvars, bodyRuns, removes, cleared, dfail, exh>>

\* the agent's bare ping: s.agent.send <- pong under agentMu
AgentPong(h) ==
    /\ ~panicked
    /\ pc[A(h)] = "pong"
    /\ LockedSendA(A(h), hsess[h], Item(Pong, "relay", 0), "pong_w")
    /\ UNCHANGED <<hub, stoken, sclient, sagent, sctx, reconn, once, cmu, hvars,
                   cur, retry, chClosed, closes, direct, wpc, rdErr, lastW,
                   bvars, xvars, notes, bodyRuns, removes, cleared, dfail, exh>>

\* s.clientMu.Lock(); if s.client != nil { s.client.send <- data }
AgentForward(h) ==
    /\ ~panicked
    /\ pc[A(h)] = "fwdc"
    /\ LockedSendC(A(h), hsess[h],
                   Item(ForwardPayload(msg[A(h)].m), "fwd", msg[A(h)].n), "fwdc_w")
    /\ UNCHANGED <<hub, stoken, sclient, sagent, sctx, reconn, once, amu, hvars,
                   cur, retry, chClosed, closes, direct, wpc, rdErr, lastW,
                   bvars, xvars, bodyRuns, removes, cleared, dfail, exh>>

\* ---------------------------------------------------------------- cleanup
OnceFreeAlways(s) == TRUE
\* sync.Once: the function has not been called yet
OnceFree(s) == once[s] = 0

\* s.once.Do: the first caller runs the body, starting with s.cancel(); a
\* caller that finds it running waits; one that finds it done returns
CleanupEnter(t) ==
    /\ ~panicked
    /\ pc[t] = "cl_once"
    /\ LET s == hsess[t[2]] IN
       IF OnceFree(s)
       THEN /\ once' = [once EXCEPT ![s] = 1]
            /\ sctx' = [sctx EXCEPT ![s] = IF @ = "nil" THEN @ ELSE "cancelled"]
            /\ bodyRuns' = [bodyRuns EXCEPT ![s] = @ + 1]
            /\ pc' = [pc EXCEPT ![t] = "cl_client"]
       ELSE /\ once[s] = 2
            /\ pc' = [pc EXCEPT ![t] = "done"]
            /\ UNCHANGED <<once, sctx, bodyRuns>>
    /\ UNCHANGED <<hub, stoken, sclient, sagent, reconn, cmu, amu, hvars, msg,
                   cur, retry, evars, bvars, xvars, panicked, notes, removes, cleared,
                   dfail, exh>>

\* the clientMu section: conn.Close(), close(send), s.client = nil
CleanupClient(t) ==
    /\ ~panicked
    /\ pc[t] = "cl_client"
    /\ LET s == hsess[t[2]]
           e == sclient[s] IN
       /\ ~cmu[s]
       /\ IF e = 0
          THEN /\ pc' = [pc EXCEPT ![t] = "cl_agent"]
               /\ UNCHANGED <<sclient, closes, chClosed, cleared, panicked>>
          ELSE IF chClosed[e]
          THEN /\ panicked' = TRUE
               /\ UNCHANGED <<pc, sclient, closes, chClosed, cleared>>
          ELSE /\ closes' = [closes EXCEPT ![e] = @ + 1]
               /\ chClosed' = [chClosed EXCEPT ![e] = TRUE]
               /\ sclient' = [sclient EXCEPT ![s] = 0]
               /\ cleared' = [cleared EXCEPT ![s] = @ \cup {e}]
               /\ pc' = [pc EXCEPT ![t] = "cl_agent"]
               /\ UNCHANGED panicked
    /\ UNCHANGED <<hub, stoken, sagent, sctx, reconn, once, cmu, amu, hvars, msg,
                   cur, retry, send, direct, wpc, rdErr, lastW, bvars, xvars, notes,
                   bodyRuns, removes, dfail, exh>>

\* the agentMu section: conn.Close(), close(send), s.agent = nil
CleanupAgent(t) ==
    /\ ~panicked
    /\ pc[t] = "cl_agent"
    /\ LET s == hsess[t[2]]
           e == sagent[s] IN
       /\ ~amu[s]
       /\ IF e = 0
          THEN /\ pc' = [pc EXCEPT ![t] = "cl_remove"]
               /\ UNCHANGED <<sagent, closes, chClosed, cleared, panicked>>
          ELSE IF chClosed[e]
          THEN /\ panicked' = TRUE
               /\ UNCHANGED <<pc, sagent, closes, chClosed, cleared>>
          ELSE /\ closes' = [closes EXCEPT ![e] = @ + 1]
               /\ chClosed' = [chClosed EXCEPT ![e] = TRUE]
               /\ sagent' = [sagent EXCEPT ![s] = 0]
               /\ cleared' = [cleared EXCEPT ![s] = @ \cup {e}]
               /\ pc' = [pc EXCEPT ![t] = "cl_remove"]
               /\ UNCHANGED panicked
    /\ UNCHANGED <<hub, stoken, sclient, sctx, reconn, once, cmu, amu, hvars, msg,
                   cur, retry, send, direct, wpc, rdErr, lastW, bvars, xvars, notes,
                   bodyRuns, removes, dfail, exh>>

\* relayHub.removeSession(s.token); the body ends and the Once is done
CleanupRemove(t) ==
    /\ ~panicked
    /\ pc[t] = "cl_remove"
    /\ LET s == hsess[t[2]] IN
       /\ hub' = RemoveSession(hub, stoken[s])
       /\ once' = [once EXCEPT ![s] = 2]
       /\ removes' = [removes EXCEPT ![s] = @ + 1]
    /\ pc' = [pc EXCEPT ![t] = "done"]
    /\ UNCHANGED <<stoken, sclient, sagent, sctx, reconn, cmu, amu, hvars, msg,
                   cur, retry, evars, bvars, xvars, panicked, notes, bodyRuns, cleared,
                   dfail, exh>>

\* ------------------------------------------------------------ specification
Next ==
    \/ \E h \in Handlers, tok \in TokenInputs : HandleStart(h, tok)
    \/ \E h \in Handlers : HandleBind(h)
    \/ \E h \in Handlers : HandleDialFail(h)
    \/ \E h \in Handlers : HandleDialOk(h)
    \/ \E e \in Eps : WriterWrite(e)
    \/ \E e \in Eps : WriterFail(e)
    \/ \E e \in Eps : WriterExit(e)
    \/ \E t \in Tasks : BlockedSendC(t)
    \/ \E t \in Tasks : BlockedSendA(t)
    \/ \E h \in Handlers : ClientTop(h)
    \/ \E h \in Handlers : ClientDeref(h)
    \/ \E h \in Handlers, m \in ClientInputs : ClientRecv(h, m)
    \/ \E h \in Handlers : ClientReadErr(h)
    \/ \E h \in Handlers : ClientPong(h)
    \/ \E h \in Handlers : ClientLocal(h)
    \/ \E h \in Handlers : ClientCheck(h)
    \/ \E h \in Handlers : ClientNotify(h)
    \/ \E h \in Handlers : ClientForward(h)
    \/ \E h \in Handlers : AgentTop(h)
    \/ \E h \in Handlers : AgentGet(h)
    \/ \E h \in Handlers, m \in AgentInputs : AgentRecv(h, m)
    \/ \E h \in Handlers : AgentReadErr(h)
    \/ \E h \in Handlers : AgentExit(h)
    \/ \E h \in Handlers : AgentDialFail(h)
    \/ \E h \in Handlers : AgentDialOk(h)
    \/ \E h \in Handlers : AgentClear(h)
    \/ \E h \in Handlers : AgentSuccess(h)
    \/ \E h \in Handlers : AgentPong(h)
    \/ \E h \in Handlers : AgentForward(h)
    \/ \E t \in Tasks : CleanupEnter(t)
    \/ \E t \in Tasks : CleanupClient(t)
    \/ \E t \in Tasks : CleanupAgent(t)
    \/ \E t \in Tasks : CleanupRemove(t)

Spec == Init /\ [][Next]_vars

\* Scheduling: a goroutine that can take a step of its own takes it (the Go
\* scheduler runs every runnable goroutine, and a dial returns).  What the
\* peers do is not forced: a blocked ReadMessage may never return, and a new
\* connection may never arrive.
WriterStep(e) == WriterWrite(e) \/ WriterFail(e) \/ WriterExit(e)

ClientStep(h) ==
    \/ ClientTop(h) \/ ClientDeref(h) \/ ClientPong(h) \/ ClientLocal(h)
    \/ ClientCheck(h) \/ ClientNotify(h) \/ ClientForward(h)

AgentStep(h) ==
    \/ AgentTop(h) \/ AgentGet(h) \/ AgentExit(h) \/ AgentDialFail(h)
    \/ AgentDialOk(h) \/ AgentClear(h) \/ AgentSuccess(h) \/ AgentPong(h)
    \/ AgentForward(h)

CleanupStep(t) ==
    \/ CleanupEnter(t) \/ CleanupClient(t) \/ CleanupAgent(t) \/ CleanupRemove(t)
    \/ BlockedSendC(t) \/ BlockedSendA(t)

\* ReadMessage on a transport this process has closed returns an error
ReadClosed(h) ==
    \/ ClientReadErr(h) /\ closes[cur[C(h)]] > 0
    \/ AgentReadErr(h) /\ closes[cur[A(h)]] > 0

Fairness ==
    /\ \A h \in Handlers : WF_vars(ReadClosed(h))
    /\ \A e \in Eps : WF_vars(WriterStep(e))
    /\ \A h \in Handlers : WF_vars(ClientStep(h)) /\ WF_vars(AgentStep(h))
    /\ \A t \in Tasks : WF_vars(CleanupStep(t))
    /\ \A h \in Handlers : WF_vars(HandleBind(h))

FairSpec == Spec /\ Fairness

\* ------------------------------------------------------- the Hub alone
\* removeSession applied to a Hub holding any registered sessions, for any
\* token, up to MaxCalls times in a row.
HubTokens == Tokens \cup {"uvw"}
NoScenario ==
    [h |-> 0, g |-> 0, c |-> 0, a |-> 0, w |-> 0, q |-> 0, k |-> 0, f |-> 0]

\* maps getSession can have built: the sessions of two tokens differ
HubMaps ==
    { m \in [HubTokens -> {0} \cup Sess] :
        \A t1, t2 \in HubTokens : (m[t1] # 0 /\ m[t1] = m[t2]) => t1 = t2 }

TokenOf(m, s) ==
    IF \E t \in HubTokens : m[t] = s
    THEN CHOOSE t \in HubTokens : m[t] = s ELSE ""

HubInit ==
    /\ hub \in HubMaps
    /\ stoken = [s \in Sess |-> TokenOf(hub, s)]
    /\ \E tok \in HubTokens : hcall = [token |-> tok, before |-> hub, n |-> 0]
    /\ lim = NoScenario
    /\ InitRelay
    /\ prog = "none" /\ stored = {} /\ merged = <<>> /\ mres = NoMerge

HubRemoveSession ==
    /\ hcall.n < MaxCalls
    /\ hub' = RemoveSession(hub, hcall.token)
    /\ hcall' = [hcall EXCEPT !.n = @ + 1]
    /\ UNCHANGED <<stoken, sclient, sagent, sctx, reconn, once, cmu, amu,
                   hvars, tvars, evars, bvars, gvars, prog, stored, merged,
                   mres>>

HubNext == HubRemoveSession

HubSpec == HubInit /\ [][HubNext]_vars

\* ------------------------------------------------------ chunked upload
\* The three upload programs, each storing the chunks of one file hash in its
\* temporary directory and merging them: over SFTP (UploadChunkHandler and
\* MergeChunksHandler), on local disk with a shell command (UploadChunkHandler
\* and MergeChunksCmdHandler), and on local disk merging on the last chunk
\* (UploadChunkHandler).  The bytes of chunk i are written i.
Programs == {"sftp", "cmd", "local"}
Chunks   == 0 .. (MaxChunks - 1)
Totals   == 1 .. MaxChunks

\* for i := 0; i < total; i++ { Open(chunk i); io.Copy(finalFile, chunkFile) }
\* on a file just created: the first chunk that cannot be opened ends the
\* loop with an error response
RECURSIVE MergeLoop(_, _, _, _)
MergeLoop(i, total, S, file) ==
    IF i >= total THEN [status |-> "ok", file |-> file]
    ELSE IF i \notin S THEN [status |-> "err", file |-> file]
    ELSE MergeLoop(i + 1, total, S, Append(file, i))

\* ls -1v dir/*: the files of the directory in natural order
RECURSIVE LsV(_)
LsV(S) ==
    IF S = {} THEN <<>>
    ELSE LET i == CHOOSE x \in S : \A y \in S : x <= y IN <<i>> \o LsV(S \ {i})

\* rm -f final; cat $(ls -1v dir/*) > final
CatAll(S) == LsV(S)

UploadInit ==
    /\ prog \in Programs
    /\ stored = {}
    /\ merged = <<>>
    /\ mres = NoMerge
    /\ hub = [t \in Tokens |-> 0]
    /\ stoken = [s \in Sess |-> ""]
    /\ lim = NoScenario
    /\ hcall = NoCall
    /\ InitRelay

\* UploadChunkHandler of the SFTP and of the shell-command program: the
\* chunk is stored as <hash>-<index> in the directory of the hash
UploadChunk(i) ==
    /\ prog \in {"sftp", "cmd"}
    /\ stored' = stored \cup {i}
    /\ UNCHANGED <<svars, hvars, tvars, evars, bvars, gvars, hcall, prog,
                   merged, mres>>

\* MergeChunksHandler(hash, total)
MergeChunksHandler(total) ==
    /\ prog = "sftp"
    /\ LET r == MergeLoop(0, total, stored, <<>>) IN
       /\ merged' = r.file
       /\ mres' = [status |-> r.status, total |-> total]
    /\ UNCHANGED <<svars, hvars, tvars, evars, bvars, gvars, hcall, prog,
                   stored>>

\* MergeChunksCmdHandler(hash, total, name, uploadPath), for an upload of
\* total chunks: an error when the directory of the hash does not exist,
\* otherwise the shell command's result
MergeChunksCmdHandler(total) ==
    /\ prog = "cmd"
    /\ IF stored = {}
       THEN /\ mres' = [status |-> "err", total |-> total]
            /\ UNCHANGED merged
       ELSE /\ merged' = CatAll(stored)
            /\ mres' = [status |-> "ok", total |-> total]
    /\ UNCHANGED <<svars, hvars, tvars, evars, bvars, gvars, hcall, prog,
                   stored>>

\* UploadChunkHandler(fileHash, index, total) of the local program: the chunk
\* is stored, and the last index triggers the merge
UploadChunkHandler(i, total) ==
    /\ prog = "local"
    /\ stored' = stored \cup {i}
    /\ IF i = total - 1
       THEN LET r == MergeLoop(0, total, stored', <<>>) IN
            /\ merged' = r.file
            /\ mres' = [status |-> r.status, total |-> total]
       ELSE UNCHANGED <<merged, mres>>
    /\ UNCHANGED <<svars, hvars, tvars, evars, bvars, gvars, hcall, prog>>

UploadNext ==
    \/ \E i \in Chunks : UploadChunk(i)
    \/ \E total \in Totals : MergeChunksHandler(total)
    \/ \E total \in Totals : MergeChunksCmdHandler(total)
    \/ \E i \in Chunks, total \in Totals : UploadChunkHandler(i, total)

UploadSpec == UploadInit /\ [][UploadNext]_vars

\* ------------------------------------- header-token variant (main.go)
\* The relay of main.go: the token comes from the "token" header, a session
\* has one mutex mu (cmu here) for client and agent, no context and no
\* reconnecting flag, and the send channels are never closed.  The client
\* connection of invocation h is h; cur[A(h)] holds the agent connection
\* HandleConnection dialled until the loops start.
MainRetryLimit == 3
MainSendCap == 1000

\* Two connections arriving for one token, and one connection with traffic
\* in both directions and an agent outage.
MainScenarios ==
    { [h |-> NumHandlers, g |-> MaxAgents, c |-> 0, a |-> 0, w |-> 0,
       q |-> MaxQueue, k |-> 1, f |-> NumHandlers],
      [h |-> 1, g |-> MaxAgents, c |-> 1, a |-> 1, w |-> 0, q |-> MaxQueue,
       k |-> 1, f |-> 1] }

MainInit ==
    /\ hub = [t \in Tokens |-> 0]
    /\ stoken = [s \in Sess |-> ""]
    /\ lim \in MainScenarios
    /\ InitRelay
    /\ hcall = NoCall
    /\ prog = "main" /\ stored = {} /\ merged = <<>> /\ mres = NoMerge

\* c.Request().Header.Get("token") of connection h
MainToken(h) == TokenSeq[IF h < lim.k THEN h ELSE lim.k]

\* Notify "exit" of main.go's agentReadLoop
MainNoteExit == Notify("exit", "Agent connection lost after 3 retries")

\* ch <- it on a channel of capacity 1000
MainSend(e, it) ==
    /\ Len(send[e]) < MainSendCap
    /\ send' = [send EXCEPT ![e] = Enqueue(@, it)]

\* token check and upgrade
MainHandleStart(h, tok) ==
    /\ ~panicked
    /\ hpc[h] = "idle"
    /\ h <= lim.h
    /\ tok \in {"", MainToken(h)}
    /\ \A h2 \in Handlers : h2 < h => hpc[h2] # "idle"
    /\ hpc' = [hpc EXCEPT ![h] = IF tok = "" THEN MissingTokenReturn ELSE "dial"]
    /\ UNCHANGED <<svars, hsess, tvars, evars, bvars, gvars, xvars>>

\* websocket.DefaultDialer.Dial fails: clientConn.Close(), return err
MainDialFail(h) ==
    /\ ~panicked
    /\ hpc[h] = "dial"
    /\ closes' = [closes EXCEPT ![h] = @ + 1]
    /\ hpc' = [hpc EXCEPT ![h] = "done_dialfail"]
    /\ UNCHANGED <<svars, hsess, tvars, send, chClosed, direct, wpc, rdErr,
                   lastW, bvars, gvars, xvars>>

\* the dial succeeds: agent := &wsAgentConn{...}
MainDialOk(h) ==
    /\ ~panicked
    /\ hpc[h] = "dial"
    /\ nextEp \in AgentEps
    /\ nextEp - NumHandlers <= lim.g
    /\ cur' = [cur EXCEPT ![A(h)] = nextEp]
    /\ nextEp' = nextEp + 1
    /\ hpc' = [hpc EXCEPT ![h] = "get"]
    /\ UNCHANGED <<svars, hsess, pc, msg, retry, evars, nC, nA, nWErr, lim,
                   gvars, xvars>>

\* session := relayHub.getSession(token)
MainGetSession(h) ==
    /\ ~panicked
    /\ hpc[h] = "get"
    /\ LET s == GetSession(MainToken(h), h) IN
       /\ hub' = [hub EXCEPT ![MainToken(h)] = s]
       /\ stoken' = [stoken EXCEPT ![s] = MainToken(h)]
       /\ hsess' = [hsess EXCEPT ![h] = s]
    /\ hpc' = [hpc EXCEPT ![h] = "lock"]
    /\ UNCHANGED <<sclient, sagent, sctx, reconn, once, cmu, amu, tvars,
                   evars, bvars, gvars, xvars>>

\* session.mu.Lock(); session.url = ...; session.client = client
MainBindClient(h) ==
    /\ ~panicked
    /\ hpc[h] = "lock"
    /\ ~cmu[hsess[h]]
    /\ cmu' = [cmu EXCEPT ![hsess[h]] = TRUE]
    /\ sclient' = [sclient EXCEPT ![hsess[h]] = h]
    /\ hpc' = [hpc EXCEPT ![h] = "lock2"]
    /\ UNCHANGED <<hub, stoken, sagent, sctx, reconn, once, amu, hsess, tvars,
                   evars, bvars, gvars, xvars>>

\* session.agent = agent; session.mu.Unlock()
MainBindAgent(h) ==
    /\ ~panicked
    /\ hpc[h] = "lock2"
    /\ sagent' = [sagent EXCEPT ![hsess[h]] = cur[A(h)]]
    /\ cmu' = [cmu EXCEPT ![hsess[h]] = FALSE]
    /\ hpc' = [hpc EXCEPT ![h] = "go"]
    /\ UNCHANGED <<hub, stoken, sclient, sctx, reconn, once, amu, hsess, tvars,
                   evars, bvars, gvars, xvars>>

\* go client.writePump(); go agent.writePump(); go session.clientReadLoop();
\* go session.agentReadLoop(); return nil
MainGo(h) ==
    /\ ~panicked
    /\ hpc[h] = "go"
    /\ wpc' = [wpc EXCEPT ![h] = "run", ![cur[A(h)]] = "run"]
    /\ pc' = [pc EXCEPT ![C(h)] = "top", ![A(h)] = "top"]
    /\ cur' = [cur EXCEPT ![A(h)] = 0]
    /\ hpc' = [hpc EXCEPT ![h] = "done_ok"]
    /\ UNCHANGED <<svars, hsess, msg, retry, send, chClosed, closes, direct,
                   rdErr, lastW, bvars, gvars, xvars>>

\* writePump: msg, ok := <-c.send; WriteMessage(msg) succeeds
MainWriterWrite(e) ==
    /\ ~panicked
    /\ wpc[e] = "run"
    /\ send[e] # <<>>
    /\ closes[e] = 0
    /\ send' = [send EXCEPT ![e] = Tail(@)]
    /\ lastW' = [lastW EXCEPT ![e] =
                    IF Head(send[e]).via = "fwd" THEN Head(send[e]).n ELSE @]
    /\ UNCHANGED <<svars, hvars, tvars, chClosed, closes, direct, wpc, rdErr,
                   bvars, gvars, xvars>>

\* writePump: WriteMessage fails on a closed transport: return, and the
\* deferred conn.Close() runs
MainWriterFail(e) ==
    /\ ~panicked
    /\ wpc[e] = "run"
    /\ send[e] # <<>>
    /\ closes[e] > 0
    /\ send' = [send EXCEPT ![e] = Tail(@)]
    /\ closes' = [closes EXCEPT ![e] = @ + 1]
    /\ wpc' = [wpc EXCEPT ![e] = "done"]
    /\ UNCHANGED <<svars, hvars, tvars, chClosed, direct, rdErr, lastW, bvars,
                   gvars, xvars>>

\* clientReadLoop: s.client.conn is evaluated (no mutex) and ReadMessage
\* blocks on it
MainClientDeref(h) ==
    /\ ~panicked
    /\ pc[C(h)] = "top"
    /\ IF sclient[hsess[h]] = 0
       THEN /\ panicked' = TRUE
            /\ UNCHANGED <<pc, cur>>
       ELSE /\ cur' = [cur EXCEPT ![C(h)] = sclient[hsess[h]]]
            /\ pc' = [pc EXCEPT ![C(h)] = "read"]
            /\ UNCHANGED panicked
    /\ UNCHANGED <<svars, hvars, msg, retry, evars, bvars, notes, bodyRuns,
                   removes, cleared, dfail, exh, xvars>>

\* where main.go's clientReadLoop goes with a frame it has read
MainClientDispatch(m) ==
    IF m.mt # TextMessage THEN "top"
    ELSE IF TrimSpace(m.raw) = "ping" THEN "pong"
    ELSE IF ~UnmarshalOk(m) THEN "top"
    ELSE IF m.a = "local" THEN "local"
    ELSE "fwd"

\* clientReadLoop: ReadMessage returns a frame
MainClientRecv(h, m) ==
    /\ ~panicked
    /\ pc[C(h)] = "read"
    /\ h <= lim.f
    /\ closes[cur[C(h)]] = 0
    /\ ~rdErr[cur[C(h)]]
    /\ nC < lim.c
    /\ nC' = nC + 1
    /\ pc' = [pc EXCEPT ![C(h)] = MainClientDispatch(m)]
    /\ msg' = [msg EXCEPT ![C(h)] = Item(m, "read", nC + 1)]
    /\ cur' = [cur EXCEPT ![C(h)] = 0]
    /\ UNCHANGED <<svars, hvars, retry, evars, nextEp, nA, nWErr, lim, gvars,
                   xvars>>

\* clientReadLoop: ReadMessage returns an error: break, and the deferred
\* cleanup runs
MainClientReadErr(h) ==
    /\ ~panicked
    /\ pc[C(h)] = "read"
    /\ h <= lim.f \/ closes[cur[C(h)]] > 0
    /\ rdErr' = [rdErr EXCEPT ![cur[C(h)]] = TRUE]
    /\ pc' = [pc EXCEPT ![C(h)] = "cl_once"]
    /\ cur' = [cur EXCEPT ![C(h)] = 0]
    /\ UNCHANGED <<svars, hvars, msg, retry, send, chClosed, closes, direct,
                   wpc, lastW, bvars, gvars, xvars>>

\* s.client.send <- it with no mutex and no nil check: the pong of
\* clientReadLoop and handleLocal's response
MainClientReply(h, it) ==
    /\ IF sclient[hsess[h]] = 0
       THEN /\ panicked' = TRUE
            /\ UNCHANGED <<pc, msg, send>>
       ELSE /\ MainSend(sclient[hsess[h]], it)
            /\ pc' = [pc EXCEPT ![C(h)] = "top"]
            /\ msg' = [msg EXCEPT ![C(h)] = NoItem]
            /\ UNCHANGED panicked
    /\ UNCHANGED <<svars, hvars, cur, retry, chClosed, closes, direct, wpc,
                   rdErr, lastW, bvars, notes, bodyRuns, removes, cleared,
                   dfail, exh, xvars>>

\* s.client.send <- []byte(MessageTypePong)
MainClientPong(h) ==
    /\ ~panicked
    /\ pc[C(h)] = "pong"
    /\ MainClientReply(h, Item(Pong, "relay", 0))

\* case "local": s.handleLocal(msg)
MainHandleLocal(h) ==
    /\ ~panicked
    /\ pc[C(h)] = "local"
    /\ MainClientReply(h, Item(LocalResponse(msg[C(h)].m), "relay", 0))

\* default: s.mu.Lock(); if s.agent != nil { s.agent.send <- data }
MainClientForward(h) ==
    /\ ~panicked
    /\ pc[C(h)] = "fwd"
    /\ ~cmu[hsess[h]]
    /\ IF sagent[hsess[h]] = 0
       THEN UNCHANGED send
       ELSE MainSend(sagent[hsess[h]],
                     Item(ForwardPayload(msg[C(h)].m), "fwd", msg[C(h)].n))
    /\ pc' = [pc EXCEPT ![C(h)] = "top"]
    /\ msg' = [msg EXCEPT ![C(h)] = NoItem]
    /\ UNCHANGED <<svars, hvars, cur, retry, chClosed, closes, direct, wpc,
                   rdErr, lastW, bvars, gvars, xvars>>

\* agentReadLoop: s.agent.conn is evaluated (no mutex) and ReadMessage
\* blocks on it
MainAgentDeref(h) ==
    /\ ~panicked
    /\ pc[A(h)] = "top"
    /\ IF sagent[hsess[h]] = 0
       THEN /\ panicked' = TRUE
            /\ UNCHANGED <<pc, cur>>
       ELSE /\ cur' = [cur EXCEPT ![A(h)] = sagent[hsess[h]]]
            /\ pc' = [pc EXCEPT ![A(h)] = "read"]
            /\ UNCHANGED panicked
    /\ UNCHANGED <<svars, hvars, msg, retry, evars, bvars, notes, bodyRuns,
                   removes, cleared, dfail, exh, xvars>>

\* where main.go's agentReadLoop goes with a frame it has read
MainAgentDispatch(m) ==
    IF m.mt # TextMessage THEN "top"
    ELSE IF TrimSpace(m.raw) = "ping" THEN "pong"
    ELSE "fwdc"

\* agentReadLoop: ReadMessage returns a frame: retryCount = 0
MainAgentRecv(h, m) ==
    /\ ~panicked
    /\ pc[A(h)] = "read"
    /\ h <= lim.f
    /\ closes[cur[A(h)]] = 0
    /\ ~rdErr[cur[A(h)]]
    /\ nA < lim.a
    /\ nA' = nA + 1
    /\ retry' = [retry EXCEPT ![h] = 0]
    /\ pc' = [pc EXCEPT ![A(h)] = MainAgentDispatch(m)]
    /\ msg' = [msg EXCEPT ![A(h)] = Item(m, "read", nA + 1)]
    /\ cur' = [cur EXCEPT ![A(h)] = 0]
    /\ UNCHANGED <<svars, hvars, evars, nextEp, nC, nWErr, lim, gvars, xvars>>

\* agentReadLoop: ReadMessage returns an error: retryCount++, then the
\* exhaustion branch when retryCount > 3, or the sleep and the redial
MainAgentReadErr(h) ==
    /\ ~panicked
    /\ pc[A(h)] = "read"
    /\ h <= lim.f \/ closes[cur[A(h)]] > 0 \/ rdErr[cur[A(h)]]
    /\ rdErr' = [rdErr EXCEPT ![cur[A(h)]] = TRUE]
    /\ retry' = [retry EXCEPT ![h] = @ + 1]
    /\ pc' = [pc EXCEPT ![A(h)] =
                 IF retry[h] + 1 > MainRetryLimit THEN "exit" ELSE "dial"]
    /\ cur' = [cur EXCEPT ![A(h)] = 0]
    /\ UNCHANGED <<svars, hvars, msg, send, chClosed, closes, direct, wpc,
                   lastW, bvars, gvars, xvars>>

\* the redial fails: continue
MainRedialFail(h) ==
    /\ ~panicked
    /\ pc[A(h)] = "dial"
    /\ pc' = [pc EXCEPT ![A(h)] = "top"]
    /\ UNCHANGED <<svars, hvars, msg, cur, retry, evars, bvars, gvars, xvars>>

\* the redial succeeds: newAgent is made and go newAgent.writePump()
MainRedialOk(h) ==
    /\ ~panicked
    /\ pc[A(h)] = "dial"
    /\ nextEp \in AgentEps
    /\ nextEp - NumHandlers <= lim.g
    /\ cur' = [cur EXCEPT ![A(h)] = nextEp]
    /\ wpc' = [wpc EXCEPT ![nextEp] = "run"]
    /\ nextEp' = nextEp + 1
    /\ pc' = [pc EXCEPT ![A(h)] = "install"]
    /\ UNCHANGED <<svars, hvars, msg, retry, send, chClosed, closes, direct,
                   rdErr, lastW, nC, nA, nWErr, lim, gvars, xvars>>

\* s.mu.Lock(); s.agent = newAgent; s.mu.Unlock(); continue
MainInstall(h) ==
    /\ ~panicked
    /\ pc[A(h)] = "install"
    /\ ~cmu[hsess[h]]
    /\ sagent' = [sagent EXCEPT ![hsess[h]] = cur[A(h)]]
    /\ cur' = [cur EXCEPT ![A(h)] = 0]
    /\ pc' = [pc EXCEPT ![A(h)] = "top"]
    /\ UNCHANGED <<hub, stoken, sclient, sctx, reconn, once, cmu, amu, hvars,
                   msg, retry, evars, bvars, gvars, xvars>>

\* s.agent.send <- []byte(MessageTypePong), with no mutex and no nil check
MainAgentPong(h) ==
    /\ ~panicked
    /\ pc[A(h)] = "pong"
    /\ IF sagent[hsess[h]] = 0
       THEN /\ panicked' = TRUE
            /\ UNCHANGED <<pc, msg, send>>
       ELSE /\ MainSend(sagent[hsess[h]], Item(Pong, "relay", 0))
            /\ pc' = [pc EXCEPT ![A(h)] = "top"]
            /\ msg' = [msg EXCEPT ![A(h)] = NoItem]
            /\ UNCHANGED panicked
    /\ UNCHANGED <<svars, hvars, cur, retry, chClosed, closes, direct, wpc,
                   rdErr, lastW, bvars, notes, bodyRuns, removes, cleared,
                   dfail, exh, xvars>>

\* s.mu.Lock(); if s.client != nil { s.client.send <- data }
MainAgentForward(h) ==
    /\ ~panicked
    /\ pc[A(h)] = "fwdc"
    /\ ~cmu[hsess[h]]
    /\ IF sclient[hsess[h]] = 0
       THEN UNCHANGED send
       ELSE MainSend(sclient[hsess[h]],
                     Item(ForwardPayload(msg[A(h)].m), "fwd", msg[A(h)].n))
    /\ pc' = [pc EXCEPT ![A(h)] = "top"]
    /\ msg' = [msg EXCEPT ![A(h)] = NoItem]
    /\ UNCHANGED <<svars, hvars, cur, retry, chClosed, closes, direct, wpc,
                   rdErr, lastW, bvars, gvars, xvars>>

\* the "exit" notification under mu, then time.Sleep and s.cleanup()
MainAgentExit(h) ==
    /\ ~panicked
    /\ pc[A(h)] = "exit"
    /\ ~cmu[hsess[h]]
    /\ IF sclient[hsess[h]] = 0
       THEN UNCHANGED send
       ELSE MainSend(sclient[hsess[h]], Item(MainNoteExit, "relay", 0))
    /\ pc' = [pc EXCEPT ![A(h)] = "cl_once"]
    /\ UNCHANGED <<svars, hvars, msg, cur, retry, chClosed, closes, direct,
                   wpc, rdErr, lastW, bvars, gvars, xvars>>

\* cleanup: s.once.Do(...) is entered, or returns at once when it was used
MainCleanupOnce(t) ==
    /\ ~panicked
    /\ pc[t] = "cl_once"
    /\ once[hsess[t[2]]] # 1
    /\ IF once[hsess[t[2]]] = 0
       THEN /\ once' = [once EXCEPT ![hsess[t[2]]] = 1]
            /\ pc' = [pc EXCEPT ![t] = "cl_body"]
       ELSE /\ pc' = [pc EXCEPT ![t] = "done"]
            /\ UNCHANGED once
    /\ UNCHANGED <<hub, stoken, sclient, sagent, sctx, reconn, cmu, amu,
                   hvars, msg, cur, retry, evars, bvars, gvars, xvars>>

\* under mu: both connections are closed and cleared
MainCleanupBody(t) ==
    /\ ~panicked
    /\ pc[t] = "cl_body"
    /\ LET s == hsess[t[2]] IN
       /\ ~cmu[s]
       /\ closes' = [e \in Eps |->
                       closes[e] + (IF e = sclient[s] THEN 1 ELSE 0)
                                 + (IF e = sagent[s] THEN 1 ELSE 0)]
       /\ sclient' = [sclient EXCEPT ![s] = 0]
       /\ sagent' = [sagent EXCEPT ![s] = 0]
       /\ bodyRuns' = [bodyRuns EXCEPT ![s] = @ + 1]
    /\ pc' = [pc EXCEPT ![t] = "cl_remove"]
    /\ UNCHANGED <<hub, stoken, sctx, reconn, once, cmu, amu, hvars, msg, cur,
                   retry, send, chClosed, direct, wpc, rdErr, lastW, bvars,
                   panicked, notes, removes, cleared, dfail, exh, xvars>>

\* relayHub.removeSession(s.token), and the once is done
MainCleanupRemove(t) ==
    /\ ~panicked
    /\ pc[t] = "cl_remove"
    /\ LET s == hsess[t[2]] IN
       /\ hub' = RemoveSession(hub, stoken[s])
       /\ once' = [once EXCEPT ![s] = 2]
       /\ removes' = [removes EXCEPT ![s] = @ + 1]
    /\ pc' = [pc EXCEPT ![t] = "done"]
    /\ UNCHANGED <<stoken, sclient, sagent, sctx, reconn, cmu, amu, hvars,
                   msg, cur, retry, evars, bvars, panicked, notes, bodyRuns,
                   cleared, dfail, exh, xvars>>

MainNext ==
    \/ \E h \in Handlers, tok \in TokenInputs : MainHandleStart(h, tok)
    \/ \E h \in Handlers : MainDialFail(h)
    \/ \E h \in Handlers : MainDialOk(h)
    \/ \E h \in Handlers : MainGetSession(h)
    \/ \E h \in Handlers : MainBindClient(h)
    \/ \E h \in Handlers : MainBindAgent(h)
    \/ \E h \in Handlers : MainGo(h)
    \/ \E e \in Eps : MainWriterWrite(e)
    \/ \E e \in Eps : MainWriterFail(e)
    \/ \E h \in Handlers : MainClientDeref(h)
    \/ \E h \in Handlers, m \in ClientInputs : MainClientRecv(h, m)
    \/ \E h \in Handlers : MainClientReadErr(h)
    \/ \E h \in Handlers : MainClientPong(h)
    \/ \E h \in Handlers : MainHandleLocal(h)
    \/ \E h \in Handlers : MainClientForward(h)
    \/ \E h \in Handlers : MainAgentDeref(h)
    \/ \E h \in Handlers, m \in AgentInputs : MainAgentRecv(h, m)
    \/ \E h \in Handlers : MainAgentReadErr(h)
    \/ \E h \in Handlers : MainRedialFail(h)
    \/ \E h \in Handlers : MainRedialOk(h)
    \/ \E h \in Handlers : MainInstall(h)
    \/ \E h \in Handlers : MainAgentPong(h)
    \/ \E h \in Handlers : MainAgentForward(h)
    \/ \E h \in Handlers : MainAgentExit(h)
    \/ \E t \in Tasks : MainCleanupOnce(t)
    \/ \E t \in Tasks : MainCleanupBody(t)
    \/ \E t \in Tasks : MainCleanupRemove(t)

MainSpec == MainInit /\ [][MainNext]_vars

\* ------------------------------------------------------------ properties
\* What the claims call a keepalive probe, an envelope and a local action,
\* stated on the frame itself.
BarePing(m)  == m.mt = TextMessage /\ m.raw \in {"ping", " ping\n"}
Envelope(m)  == m.mt = TextMessage /\ m.raw = "json"
FwdIdx(q)    == {i \in 1 .. Len(q) : q[i].via = "fwd"}
NoteCount(s, a) == Cardinality({i \in 1 .. Len(notes[s]) : notes[s][i] = a})
Embeds(d, x) ==
    /\ Len(x) > 0
    /\ \E k \in 1 .. Len(d) :
          k + Len(x) - 1 <= Len(d) /\ SubSeq(d, k, k + Len(x) - 1) = x
\* a step in which loop h's ReadMessage returns a frame (kept in msg')
ClientGot(h) == pc[C(h)] = "read" /\ pc'[C(h)] # "read" /\ nC' = nC + 1
AgentGot(h)  == pc[A(h)] = "read" /\ pc'[A(h)] # "read" /\ nA' = nA + 1
InCleanup == {"cl_once", "cl_client", "cl_agent", "cl_remove"}
Accepted(h) == hpc[h] \in {"dial", "done_ok", "done_dialfail"}

\* C1: a session has at most one bound client: a connection that was accepted
\* stays the session's client until cleanup unbinds it, and a connection that
\* finds a client bound is rejected: it is closed, never becomes the
\* session's client and gets no goroutines.
C1_OneClientPerSession ==
    \A h \in Handlers :
       /\ (Accepted(h) /\ ~chClosed[h]) => sclient[hsess[h]] = h
       /\ hpc[h] = "done_dup" =>
             /\ sclient[hsess[h]] # h
             /\ closes[h] = 1
             /\ wpc[h] = "off" /\ pc[C(h)] = "off" /\ pc[A(h)] = "off"

C1_Witness ==
    \E h1, h2 \in Handlers :
       /\ h1 # h2 /\ hsess[h1] = hsess[h2]
       /\ hpc[h2] = "done_dup"
       /\ Accepted(h1) /\ sclient[hsess[h1]] = h1

\* C2: FIFO per direction: on every transport the forwarded frames waiting in
\* the send channel are in the order they were read from the source, and all
\* of them were read after the last forwarded frame already written.
C2_FifoPerDirection ==
    \A e \in Eps :
       /\ \A i, j \in FwdIdx(send[e]) : i < j => send[e][i].n < send[e][j].n
       /\ \A i \in FwdIdx(send[e]) : lastW[e] < send[e][i].n

C2_Witness ==
    \E e \in AgentEps :
       /\ lastW[e] = 1
       /\ send[e] # <<>> /\ Head(send[e]).via = "fwd" /\ Head(send[e]).n = 2

\* C3: forwarding is verbatim.  A client envelope that is neither a ping nor
\* a local action goes to the reconnecting check; with the flag clear it goes
\* to the forward step, which, the agent being bound, appends the frame as
\* read to the agent's send channel.  An agent text frame that is not a bare
\* ping goes to the forward step, which, the client being bound, appends the
\* frame as read to the client's send channel.
C3_Step(h) ==
    LET s == hsess[h]
        cm == msg'[C(h)].m
        am == msg'[A(h)].m IN
    /\ (ClientGot(h) /\ Envelope(cm) /\ cm.t # "ping" /\ cm.a # "local")
          => pc'[C(h)] = "chk"
    /\ (pc[C(h)] = "chk" /\ pc'[C(h)] # "chk" /\ ~reconn[s]) => pc'[C(h)] = "fwd"
    /\ (pc[C(h)] \in {"fwd", "fwd_w"} /\ pc'[C(h)] = "top" /\ sagent[s] # 0)
          => /\ msg[C(h)].m \in ClientInputs
             /\ send'[sagent[s]] =
                   Append(send[sagent[s]], [m |-> msg[C(h)].m, via |-> "fwd", n |-> msg[C(h)].n])
    /\ (AgentGot(h) /\ am.mt = TextMessage /\ ~BarePing(am)) => pc'[A(h)] = "fwdc"
    /\ (pc[A(h)] \in {"fwdc", "fwdc_w"} /\ pc'[A(h)] = "top" /\ sclient[s] # 0)
          => /\ msg[A(h)].m \in AgentInputs
             /\ send'[sclient[s]] =
                   Append(send[sclient[s]], [m |-> msg[A(h)].m, via |-> "fwd", n |-> msg[A(h)].n])

C3_ForwardedUnchanged == [][\A h \in Handlers : C3_Step(h)]_vars

C3_Witness ==
    \E e \in AgentEps, c \in ClientEps :
       /\ send[e] # <<>> /\ send[c] # <<>>
       /\ Head(send[e]).via = "fwd"
       /\ Head(send[e]).m = Json("request", "r2", "remote", <<"x">>)
       /\ Head(send[c]).via = "fwd"
       /\ Head(send[c]).m = Json("response", "r2", "", <<"y">>)

\* C4: a bare ping is answered to its sender and never forwarded: no
\* forwarded frame in any send channel is a bare ping; a loop that reads one
\* goes to its pong step, and that step appends "pong" to the send channel of
\* the side the ping came from and nothing to the other side.
C4_NoPingForwarded ==
    \A e \in Eps : \A i \in FwdIdx(send[e]) : ~BarePing(send[e][i].m)

C4_Step(h) ==
    LET s == hsess[h]
        pong == [m |-> Bare("pong"), via |-> "relay", n |-> 0] IN
    /\ (ClientGot(h) /\ BarePing(msg'[C(h)].m)) => pc'[C(h)] = "pong"
    /\ (pc[C(h)] = "pong" /\ pc'[C(h)] = "top")
          => /\ sclient[s] # 0
             /\ send'[sclient[s]] = Append(send[sclient[s]], pong)
             /\ \A e \in AgentEps : send'[e] = send[e]
    /\ (AgentGot(h) /\ BarePing(msg'[A(h)].m)) => pc'[A(h)] = "pong"
    /\ (pc[A(h)] \in {"pong", "pong_w"} /\ pc'[A(h)] = "top" /\ sagent[s] # 0)
          => /\ send'[sagent[s]] = Append(send[sagent[s]], pong)
             /\ \A e \in ClientEps : send'[e] = send[e]

C4_PingAnswered ==
    [][C4_NoPingForwarded' /\ \A h \in Handlers : C4_Step(h)]_vars

C4_Witness ==
    \E e \in AgentEps, c \in ClientEps :
       /\ send[e] # <<>> /\ Head(send[e]) = Item(Bare("pong"), "relay", 0)
       /\ send[c] # <<>> /\ Head(send[c]) = Item(Bare("pong"), "relay", 0)

\* C5: a client envelope whose action is "local" goes to handleLocal, whose
\* step appends nothing to any agent send channel and, the client being
\* bound, exactly one frame to the client's: a response carrying the
\* request's id and embedding its data.
C5_Step(h) ==
    LET s == hsess[h]
        c == sclient[s]
        req == msg[C(h)].m IN
    /\ (ClientGot(h) /\ Envelope(msg'[C(h)].m) /\ msg'[C(h)].m.a = "local")
          => pc'[C(h)] = "local"
    /\ (pc[C(h)] = "local" /\ pc'[C(h)] = "local_w") => send' = send
    /\ (pc[C(h)] \in {"local", "local_w"} /\ pc'[C(h)] = "top")
          => /\ \A e \in Eps \ {c} : send'[e] = send[e]
             /\ c # 0 =>
                   /\ Len(send'[c]) = Len(send[c]) + 1
                   /\ SubSeq(send'[c], 1, Len(send[c])) = send[c]
                   /\ LET it == send'[c][Len(send'[c])] IN
                         /\ it.m.t = "response"
                         /\ it.m.r = req.r
                         /\ Embeds(it.m.d, req.d)

C5_LocalAnsweredLocally == [][\A h \in Handlers : C5_Step(h)]_vars

C5_Witness ==
    \E c \in ClientEps :
       /\ send[c] # <<>>
       /\ Head(send[c]).via = "relay"
       /\ Head(send[c]).m.t = "response"
       /\ Head(send[c]).m.r = "r1"
       /\ Embeds(Head(send[c]).m.d, <<"z">>)
       /\ \A e \in AgentEps : send[e] = <<>> /\ lastW[e] = 0

\* C6 (as claimed): whenever "reconnect_success" or "exit" is enqueued to the
\* client, exactly one "reconnecting" was enqueued since the agent read error
\* that began the outage.
C6_ExactlyOneReconnecting ==
    \A s \in Sess : \A i \in 1 .. Len(notes[s]) :
       notes[s][i] \in {"reconnect_success", "exit"} =>
          LET errs == {j \in 1 .. i : notes[s][j] = "err"}
              start == IF errs = {} THEN 1
                       ELSE CHOOSE j \in errs : \A k \in errs : k <= j IN
          Cardinality({j \in start .. i : notes[s][j] = "reconnecting"}) = 1

C8_CleanupOnce ==
    \A s \in Sess :
       /\ bodyRuns[s] <= 1
       /\ removes[s] <= 1
       /\ \A t \in Tasks :
             (hsess[t[2]] = s /\ pc[t] = "done")
                => bodyRuns[s] = 1 /\ removes[s] = 1 /\ once[s] = 2

C8_Witness ==
    \E h \in Handlers :
       /\ pc[C(h)] = "done" /\ pc[A(h)] = "done"
       /\ bodyRuns[hsess[h]] = 1 /\ removes[hsess[h]] = 1

\* C9 (as claimed): every transport is closed exactly once, counting the
\* closes made by cleanup and by the writePumps: never twice, and once when
\* the session is torn down and its goroutines have ended.
C9_ClosedExactlyOnce ==
    \A e \in Eps :
       /\ closes[e] <= 1
       /\ (wpc[e] = "done" /\ \E s \in Sess : e \in cleared[s]) => closes[e] = 1

\* C10 (as claimed): at the step that completes cleanup's body the context is
\* cancelled, the connections cleanup found bound are closed with their send
\* channels closed, both references are nil and the Hub has no entry for the
\* token.
C10_Post(s) ==
    /\ sctx'[s] = "cancelled"
    /\ \A e \in cleared'[s] : closes'[e] >= 1 /\ chClosed'[e]
    /\ sclient'[s] = 0
    /\ sagent'[s] = 0
    /\ hub'[stoken[s]] = 0

C10_CleanupPostcondition ==
    [][\A t \in Tasks :
          (pc[t] = "cl_remove" /\ pc'[t] = "done") => C10_Post(hsess[t[2]])]_vars


\* cleanup of the session handler h obtained has completed and the Hub does
\* not map the token to it
TornDown(h) ==
    /\ hsess[h] # 0
    /\ once[hsess[h]] = 2
    /\ hub[stoken[hsess[h]]] # hsess[h]

\* C11 (as claimed): once clientReadLoop has observed a read error, cleanup
\* eventually completes and the Hub no longer maps the token to the session.
C11_ClientErrorTearsDown ==
    \A h \in Handlers :
       rdErr[h] ~> TornDown(h)

\* C12: an agent read error does not tear the session down.  While no loop
\* of the session has exhausted its retries and its client has not failed
\* (no read error, writePump running), the session is in the Hub, not cleaned
\* up, and its client is bound and open; a read error that leaves retryCount
\* within MaxAgentRetries changes none of that, sets agentReconnecting and
\* goes to the dial, whose outcome is a retry from the top or a new agent.
NoTeardownCause(s) ==
    \A h \in Handlers :
       hsess[h] = s => ~rdErr[h] /\ wpc[h] # "done" /\ ~exh[h]

C12_Kept ==
    \A h \in Handlers :
       LET s == hsess[h] IN
       (hpc[h] = "done_ok" /\ NoTeardownCause(s))
          => /\ hub[stoken[s]] = s
             /\ once[s] = 0 /\ sctx[s] = "live"
             /\ sclient[s] = h
             /\ closes[h] = 0 /\ ~chClosed[h]

C12_Step(h) ==
    LET s == hsess[h] IN
    /\ (pc[A(h)] = "read" /\ retry'[h] = retry[h] + 1 /\ retry'[h] <= MaxAgentRetries)
          => /\ reconn'[s]
             /\ pc'[A(h)] = "dial"
             /\ UNCHANGED <<hub, sclient, once, sctx, closes, chClosed>>
    /\ (pc[A(h)] = "dial" /\ pc'[A(h)] # "dial")
          => \/ pc'[A(h)] = "top" /\ sagent' = sagent
             \/ pc'[A(h)] = "clear" /\ sagent'[s] \notin {0, sagent[s]}

C12_AgentErrorReconnects ==
    [][C12_Kept' /\ \A h \in Handlers : C12_Step(h)]_vars

C12_Witness ==
    \E h \in Handlers :
       LET s == hsess[h] IN
       /\ pc[A(h)] = "dial" /\ retry[h] = MaxAgentRetries /\ dfail[h] = 2
       /\ reconn[s]
       /\ hub[stoken[s]] = s /\ sclient[s] = h /\ closes[h] = 0 /\ once[s] = 0

\* C13: a client frame that reaches the reconnecting check while the flag is
\* set goes to the notify step; that step appends a "reconnecting"
\* notification to the client's send channel, appends nothing to any agent
\* channel and discards the frame: no loop holds it and no agent channel
\* contains it afterwards.
C13_Step(h) ==
    LET s == hsess[h]
        c == sclient[s]
        k == msg[C(h)].n IN
    /\ (pc[C(h)] = "chk" /\ pc'[C(h)] # "chk" /\ reconn[s])
          => pc'[C(h)] = "notify" /\ send' = send
    /\ (pc[C(h)] = "notify" /\ pc'[C(h)] = "top")
          => /\ \A e \in AgentEps : send'[e] = send[e]
             /\ c # 0
             /\ Len(send'[c]) = Len(send[c]) + 1
             /\ SubSeq(send'[c], 1, Len(send[c])) = send[c]
             /\ LET it == send'[c][Len(send'[c])] IN
                   /\ it.via = "relay"
                   /\ it.m.t = "notify" /\ it.m.a = "reconnecting"
             /\ \A h2 \in Handlers : msg'[C(h2)].n # k
             /\ \A e \in AgentEps : \A i \in FwdIdx(send'[e]) : send'[e][i].n # k

C13_DroppedWhileReconnecting == [][\A h \in Handlers : C13_Step(h)]_vars

C13_Witness ==
    \E h \in Handlers :
       /\ hsess[h] # 0
       /\ NoteCount(hsess[h], "reconnecting") = 1
       /\ nC = 1 /\ pc[C(h)] = "top" /\ msg[C(h)] = NoItem
       /\ \A e \in AgentEps : send[e] = <<>> /\ lastW[e] = 0

\* C14 (as claimed): a successful redial resets retryCount to 0, and the
\* first read error of a connection (the start of a new outage) therefore
\* makes it 1, leaving the full budget of dial attempts.
C14_Step(h) ==
    /\ (pc[A(h)] = "dial" /\ pc'[A(h)] = "clear") => retry'[h] = 0
    /\ (pc[A(h)] = "read" /\ retry'[h] = retry[h] + 1 /\ ~rdErr[cur[A(h)]])
          => retry'[h] = 1

C14_RetryResetOnRedial == [][\A h \in Handlers : C14_Step(h)]_vars

\* C15 (as claimed): the client loop never acts on a torn view of the flag
\* and the agent reference: a step that appends a client frame to an agent's
\* send channel finds that agent's connection without an observed read
\* error, and a step that drops a client frame as "reconnecting" does not
\* find a newly installed agent (one whose connection has no read error).
C15_Step(h) ==
    LET s == hsess[h]
        e == sagent[s] IN
    /\ (pc[C(h)] \in {"fwd", "fwd_w"} /\ pc'[C(h)] = "top" /\ e # 0
           /\ send'[e] # send[e])
          => ~rdErr[e]
    /\ (pc[C(h)] = "notify" /\ pc'[C(h)] = "top")
          => ~(e # 0 /\ ~rdErr[e])

C15_NoTornState == [][\A h \in Handlers : C15_Step(h)]_vars

\* C16 (as claimed): no goroutine ever dereferences a nil s.client or
\* s.agent, sends on a closed channel or closes a closed channel: the
\* process never panics.
C16_NoPanic == ~panicked

\* C17 (as claimed): a replaced agent connection is destroyed: every agent
\* connection that was set up and whose transport is still open is the
\* current agent of a session, and at the step that installs a new agent the
\* replaced one has its transport and its send channel closed.
C17_Replaced(h) ==
    LET s == hsess[h]
        old == sagent[s] IN
    (pc[A(h)] = "dial" /\ pc'[A(h)] = "clear" /\ old # 0)
       => closes'[old] >= 1 /\ chClosed'[old]

C17_OneLiveAgent ==
    \A e \in AgentEps :
       (wpc[e] # "off" /\ closes[e] = 0) => \E s \in Sess : sagent[s] = e

C17_ReplacedAgentDestroyed ==
    [][C17_OneLiveAgent' /\ \A h \in Handlers : C17_Replaced(h)]_vars

\* C18 (as claimed): closing the send channel shuts the writePump down in
\* order: the step at which the pump of a closed channel terminates finds
\* every queued frame written (the channel empty, not a failed write) and the
\* pump has written a close frame.
C18_Step(e) ==
    (wpc[e] = "run" /\ wpc'[e] = "done" /\ chClosed[e])
       => send[e] = <<>> /\ CloseFrames(e) >= 1

C18_CloseDrainsThenCloseFrame == [][\A e \in Eps : C18_Step(e)]_vars

\* C19: one writer per connection.  A writePump is started only for a
\* connection that never had one, and a connection with a writePump is never
\* written outside it: the only direct write, the rejection notice, goes to
\* a connection that is not a session's endpoint and has no pump.
C19_Inv ==
    \A e \in Eps : direct[e] > 0 => wpc[e] = "off" /\ \A s \in Sess : sclient[s] # e

C19_Step(e) ==
    /\ (wpc'[e] = "run" /\ wpc[e] # "run") => wpc[e] = "off" /\ direct[e] = 0
    /\ (wpc[e] # "off" /\ (send'[e] # send[e] \/ lastW'[e] # lastW[e])
           /\ Len(send'[e]) < Len(send[e]))
          => send'[e] = Tail(send[e]) /\ wpc[e] = "run"

C19_SingleWriter == [][C19_Inv' /\ \A e \in Eps : C19_Step(e)]_vars

C19_Witness ==
    \E h1, h2 \in Handlers :
       /\ direct[h2] = 1 /\ hpc[h2] = "done_dup"
       /\ wpc[h1] = "run" /\ lastW[h1] = 0 /\ direct[h1] = 0
       /\ \E e \in AgentEps : wpc[e] = "run"

\* C20 (as claimed): the wait before dial attempt n of the current outage is
\* InitialRetryInterval * 2^(n-1), where n is one more than the number of
\* dials that have failed in this outage.
C20_BackoffPerOutage ==
    \A h \in Handlers :
       pc[A(h)] = "dial" => WaitTime(retry[h]) = InitialRetryInterval * Pow2(dfail[h])

\* C21: getSession is atomic get-or-create.  A call that finds the token
\* registered returns the registered session and creates nothing; a call
\* that finds it unregistered registers one new session; so every session a
\* handler holds that has not been removed is the one the Hub maps its token
\* to, and handlers holding unremoved sessions of one token hold the same.
C21_Held ==
    \A h \in Handlers :
       (hsess[h] # 0 /\ once[hsess[h]] # 2)
          => /\ stoken[hsess[h]] \in Tokens
             /\ hub[stoken[hsess[h]]] = hsess[h]

C21_Step(h) ==
    (hpc[h] = "idle" /\ hpc'[h] = "bind")
       => \E tok \in Tokens :
             IF hub[tok] # 0
             THEN hsess'[h] = hub[tok] /\ hub' = hub /\ stoken' = stoken
             ELSE /\ hsess'[h] # 0 /\ stoken[hsess'[h]] = ""
                  /\ hub' = [hub EXCEPT ![tok] = hsess'[h]]
                  /\ stoken' = [stoken EXCEPT ![hsess'[h]] = tok]

C21_GetSessionAtomic == [][C21_Held' /\ \A h \in Handlers : C21_Step(h)]_vars

C21_Witness ==
    \E h1, h2 \in Handlers :
       /\ h1 # h2
       /\ hpc[h1] = "bind" /\ hpc[h2] = "bind"
       /\ hsess[h1] = hsess[h2] /\ hub["abc"] = hsess[h1]
       /\ Cardinality({s \in Sess : stoken[s] # ""}) = 1

\* C22: removeSession is idempotent.  After the call was made once or
\* twice for a token, the Hub has no entry for that token and every other
\* token's entry is the one it had before; if the token had no entry the
\* Hub is the map it was.
C22_RemoveIdempotent ==
    hcall.n >= 1
       => /\ hub[hcall.token] = 0
          /\ \A t \in HubTokens \ {hcall.token} : hub[t] = hcall.before[t]
          /\ hcall.before[hcall.token] = 0 => hub = hcall.before

C22_Witness ==
    /\ hcall.n = MaxCalls
    /\ hcall.before[hcall.token] # 0
    /\ \E t \in HubTokens \ {hcall.token} : hub[t] # 0

\* C23: a connection with an empty token is rejected before any session is
\* touched.  The step that handles a new connection either ends the handler
\* with the Hub, every session, every connection and every loop as they
\* were and no agent connection allocated, or registers a non-empty token; a
\* handler rejected this way holds no session, is nobody's client, has no
\* writePump or read loop, and went no further.
C23_Rejected(h) ==
    /\ hsess[h] = 0
    /\ \A s \in Sess : sclient[s] # h
    /\ wpc[h] = "off" /\ pc[C(h)] = "off" /\ pc[A(h)] = "off"
    /\ send[h] = <<>> /\ direct[h] = 0 /\ closes[h] = 0

C23_Step(h) ==
    (hpc[h] = "idle" /\ hpc'[h] # "idle")
       => \/ /\ hpc'[h] = "done_missing"
             /\ UNCHANGED <<svars, hsess, tvars, evars, nextEp>>
          \/ /\ hpc'[h] = "bind"
             /\ hsess'[h] # 0
             /\ stoken'[hsess'[h]] # ""

C23_EmptyTokenRejected ==
    [][/\ \A h \in Handlers : C23_Step(h)
       /\ \A h \in Handlers :
             (hpc[h] = "done_missing" => hpc'[h] = "done_missing")
       /\ \A h \in Handlers : (hpc'[h] = "done_missing" => C23_Rejected(h)')
      ]_vars

C23_Witness ==
    /\ hpc[1] = "done_ok" /\ hub["abc"] = 1 /\ sclient[1] = 1
    /\ hpc[2] = "done_missing"

\* C24: rejecting a second client leaves the existing session unchanged.
\* The step that rejects a connection is taken only while another connection
\* is the session's client; it changes nothing of the Hub, of any session,
\* of any send channel or of any loop, allocates no agent connection, writes
\* exactly one message, on the rejected transport, and closes that transport
\* and no other; the rejected handler goes no further.
C24_Step(h) ==
    (hpc[h] = "bind" /\ hpc'[h] = "done_dup")
       => /\ sclient[hsess[h]] \in ClientEps \ {h}
          /\ UNCHANGED <<svars, hsess, tvars, send, chClosed, wpc, rdErr,
                         lastW, nextEp, notes>>
          /\ direct' = [direct EXCEPT ![h] = direct[h] + 1]
          /\ closes' = [closes EXCEPT ![h] = 1]

C24_RejectLeavesSession ==
    [][/\ \A h \in Handlers : C24_Step(h)
       /\ \A h \in Handlers :
             hpc[h] = "done_dup"
                => /\ hpc'[h] = "done_dup"
                   /\ direct'[h] = direct[h] /\ closes'[h] = closes[h]
                   /\ wpc'[h] = "off" /\ pc'[C(h)] = "off"
      ]_vars

C24_Witness ==
    /\ hpc[1] = "done_ok" /\ sclient[1] = 1 /\ sagent[1] # 0 /\ hub["abc"] = 1
    /\ hpc[2] = "done_dup" /\ hsess[2] = 1
    /\ direct[2] = 1 /\ closes[2] = 1

\* C25: a keepalive probe is recognised in both forms: no forwarded frame in
\* any send channel is a bare "ping" or an envelope whose type is "ping".
C25_KeepaliveBothForms ==
    \A e \in Eps : \A i \in FwdIdx(send[e]) :
       /\ ~BarePing(send[e][i].m)
       /\ ~(Envelope(send[e][i].m) /\ send[e][i].m.t = MessageTypePing)

\* C26: a malformed envelope is dropped.  A loop that reads a text frame that
\* is neither a keepalive nor a JSON object goes back to its read with every
\* send channel, every session field and the Hub as they were, and no
\* forwarded frame in any send channel is such a frame.
Malformed(m) == m.mt = TextMessage /\ ~BarePing(m) /\ ~Envelope(m)

C26_Step(h) ==
    /\ (ClientGot(h) /\ Malformed(msg'[C(h)].m))
          => pc'[C(h)] = "top" /\ UNCHANGED <<svars, send>>
    /\ (AgentGot(h) /\ Malformed(msg'[A(h)].m))
          => pc'[A(h)] = "top" /\ UNCHANGED <<svars, send>>

C26_MalformedDropped ==
    [][/\ \A h \in Handlers : C26_Step(h)
       /\ \A e \in Eps : \A i \in FwdIdx(send'[e]) : ~Malformed(send'[e][i].m)
      ]_vars

\* C27: at most once, nothing fabricated.  Every read gives the frame a new
\* index.  A send channel changes only by a write taking its head or by one
\* frame being appended.  A frame appended to an agent's channel is the frame
\* a client loop holds, as read, which the loop then no longer holds, or a
\* "pong" made by an agent loop holding a bare ping; a frame appended to a
\* client's channel is the frame an agent loop holds, as read and then no
\* longer held, or made by the relay: "pong", a local response, or one of
\* the notifications "reconnecting", "reconnect_success", "exit".  No index
\* is queued twice in a direction or queued on a transport that has already
\* written it or a later one.
C27_FromClient(it) ==
    \E h \in Handlers :
       /\ pc[C(h)] \in {"fwd", "fwd_w"}
       /\ msg[C(h)].m \in ClientInputs
       /\ it = [m |-> msg[C(h)].m, via |-> "fwd", n |-> msg[C(h)].n]
       /\ msg'[C(h)] = NoItem

C27_FromAgent(it) ==
    \E h \in Handlers :
       /\ pc[A(h)] \in {"fwdc", "fwdc_w"}
       /\ msg[A(h)].m \in AgentInputs
       /\ it = [m |-> msg[A(h)].m, via |-> "fwd", n |-> msg[A(h)].n]
       /\ msg'[A(h)] = NoItem

C27_PongToAgent(it) ==
    /\ it = [m |-> Bare("pong"), via |-> "relay", n |-> 0]
    /\ \E h \in Handlers :
          pc[A(h)] \in {"pong", "pong_w"} /\ BarePing(msg[A(h)].m)

C27_MadeForClient(it) ==
    /\ it.via = "relay" /\ it.n = 0
    /\ \/ it.m = Bare("pong")
       \/ it.m.t = MessageTypeResponse /\ it.m.r = "r1"
       \/ /\ it.m.t = MessageTypeNotify
          /\ it.m.a \in {"reconnecting", "reconnect_success", "exit"}

C27_Queued(E) ==
    {<<e, i>> \in E \X (1 .. MaxQueue + 1) :
        i <= Len(send[e]) /\ send[e][i].via = "fwd"}

C27_Distinct(E) ==
    \A x, y \in C27_Queued(E) :
       /\ x # y => send[x[1]][x[2]].n # send[y[1]][y[2]].n
       /\ lastW[x[1]] < send[x[1]][x[2]].n

C27_Step ==
    /\ \A e \in AgentEps :
          \/ send'[e] = send[e]
          \/ send[e] # <<>> /\ send'[e] = Tail(send[e])
          \/ /\ Len(send'[e]) = Len(send[e]) + 1
             /\ LET it == send'[e][Len(send'[e])] IN
                /\ send'[e] = Append(send[e], it)
                /\ C27_FromClient(it) \/ C27_PongToAgent(it)
    /\ \A e \in ClientEps :
          \/ send'[e] = send[e]
          \/ send[e] # <<>> /\ send'[e] = Tail(send[e])
          \/ /\ Len(send'[e]) = Len(send[e]) + 1
             /\ LET it == send'[e][Len(send'[e])] IN
                /\ send'[e] = Append(send[e], it)
                /\ C27_FromAgent(it) \/ C27_MadeForClient(it)
    /\ \A h \in Handlers :
          /\ ClientGot(h) => msg'[C(h)].n = nC + 1
          /\ AgentGot(h) => msg'[A(h)].n = nA + 1

C27_AtMostOnce ==
    [][C27_Step /\ C27_Distinct(AgentEps)' /\ C27_Distinct(ClientEps)']_vars

C27_Witness ==
    \E e \in AgentEps :
       /\ nC = MaxFrames /\ lastW[e] = MaxFrames /\ send[e] = <<>>
       /\ \A h \in Handlers : msg[C(h)] = NoItem

\* C28: once cleanup has run the session stays torn down.  From the moment
\* a session's cleanup has completed, its client and agent references are
\* absent and stay absent, no "reconnect_success" is enqueued for it any
\* more, and when every session that exists has been cleaned up every
\* transport that was opened is closed.
C28_Down(s) ==
    /\ sclient[s] = 0
    /\ sagent[s] = 0

C28_AllClosed ==
    (\A s \in Sess : stoken[s] # "" => once[s] = 2)
       => /\ \A e \in AgentEps : e < nextEp => closes[e] > 0
          /\ \A h \in Handlers : Accepted(h) => closes[h] > 0

C28_StaysTornDown ==
    [][/\ \A s \in Sess :
             /\ once'[s] = 2 => C28_Down(s)'
             /\ once[s] = 2 =>
                   NoteCount(s, "reconnect_success")' =
                      NoteCount(s, "reconnect_success")
       /\ C28_AllClosed'
      ]_vars

\* C29: chunk merge fails loudly on an incomplete upload.  Whenever the last
\* merge of an upload of total chunks reported success, the chunks 0 ..
\* total-1 are all stored and the final file is those chunks in increasing
\* index order; a merge that found a chunk missing reported an error.
C29_MergeComplete ==
    mres.status = "ok"
       => /\ \A i \in 0 .. (mres.total - 1) : i \in stored
          /\ merged = [k \in 1 .. mres.total |-> k - 1]

\* C30: cleanup never deadlocks.  Once a path has entered a session's
\* cleanup, that execution eventually completes, unless the process has
\* crashed, whatever the other goroutines of the session are blocked on.
C30_CleanupCompletes ==
    \A s \in Sess :
       (once[s] = 1) ~> (once[s] = 2 \/ panicked)

\* C31: no task leaks.  Once every session that exists has been cleaned up,
\* then, unless the process crashes or a new session is created, eventually
\* no read loop and no writePump is running.
C31_AllDown ==
    /\ \E s \in Sess : once[s] = 2
    /\ \A s \in Sess : stoken[s] # "" => once[s] = 2

C31_NoTaskRunning ==
    /\ \A t \in Tasks : pc[t] \in {"off", "ret", "done"}
    /\ \A e \in Eps : wpc[e] # "run"

C31_NoTaskLeak ==
    C31_AllDown ~> (~C31_AllDown \/ panicked \/ C31_NoTaskRunning)

\* C32: HandleConnection never binds a client to a session that is being or
\* has been cleaned up.  When a handler binds its connection as the client,
\* and when it starts the loops, the Hub maps the token to the session, the
\* session's once is unused and its context is not cancelled.
C32_Fresh(s) ==
    /\ hub[stoken[s]] = s
    /\ once[s] = 0
    /\ sctx[s] = "live"

C32_Step(h) ==
    /\ (hpc[h] = "bind" /\ hpc'[h] = "dial") => C32_Fresh(hsess[h])'
    /\ (hpc[h] = "dial" /\ hpc'[h] = "done_ok") => C32_Fresh(hsess[h])'

C32_NoBindAfterCleanup == [][\A h \in Handlers : C32_Step(h)]_vars

\* C33: a failed initial dial leaves the token reusable.  A handler whose
\* dial failed has closed its transport and is not the client of its
\* session, and no connection is rejected as a duplicate of one whose dial
\* failed.
C33_Released(h) ==
    hpc[h] = "done_dialfail"
       => /\ closes[h] >= 1
          /\ sclient[hsess[h]] # h

C33_Step(h) ==
    (hpc[h] = "bind" /\ hpc'[h] = "done_dup")
       => hpc[sclient[hsess[h]]] # "done_dialfail"

C33_DialFailReusable ==
    [][\A h \in Handlers : C33_Released(h)' /\ C33_Step(h)]_vars

\* C34: "reconnect_success" follows the installation.  An agent loop comes
\* to the notification only from clearing the flag, and to that only from a
\* redial that installed the new connection as the session's agent; the
\* step that enqueues the notification is taken by a loop at that point,
\* with the agent reference set and the flag clear, and the loop then leaves
\* that point; so there are never more notifications than successful
\* redials.
C34_Redials ==
    (nextEp - (NumHandlers + 1))
       - Cardinality({h \in Handlers : hpc[h] = "done_ok"})

RECURSIVE C34_Sum(_)
C34_Sum(S) ==
    IF S = {} THEN 0
    ELSE LET s == CHOOSE x \in S : TRUE IN
         NoteCount(s, "reconnect_success") + C34_Sum(S \ {s})

C34_Step(h) ==
    LET s == hsess[h] IN
    /\ (pc[A(h)] # "clear" /\ pc'[A(h)] = "clear")
          => /\ pc[A(h)] = "dial"
             /\ sagent'[s] = nextEp /\ nextEp' = nextEp + 1
             /\ wpc'[nextEp] = "run"
    /\ (pc[A(h)] # "succ" /\ pc'[A(h)] = "succ")
          => pc[A(h)] = "clear" /\ ~reconn'[s]
    /\ (pc[A(h)] \in {"succ", "succ_w"} /\ pc'[A(h)] \notin {"succ", "succ_w"})
          => pc'[A(h)] = "top"

C34_Enqueue(s) ==
    NoteCount(s, "reconnect_success")' # NoteCount(s, "reconnect_success")
       => /\ NoteCount(s, "reconnect_success")' =
                NoteCount(s, "reconnect_success") + 1
          /\ \E h \in Handlers :
                /\ hsess[h] = s
                /\ pc[A(h)] \in {"succ", "succ_w"} /\ pc'[A(h)] = "top"
          /\ sagent[s] \in AgentEps
          /\ ~reconn[s]

C34_SuccessAfterInstall ==
    [][/\ \A h \in Handlers : hsess[h] # 0 => C34_Step(h)
       /\ \A s \in Sess : C34_Enqueue(s)
       /\ C34_Sum(Sess)' <= C34_Redials'
      ]_vars

C34_Witness ==
    \E s \in Sess :
       /\ NoteCount(s, "reconnect_success") = 1
       /\ sagent[s] \in AgentEps /\ ~reconn[s]
       /\ C34_Redials = 1

\* C35: sessions are isolated.  A step taken by a goroutine of the session
\* of one token (a read, a forward, a redial, the exhaustion branch,
\* cleanup) leaves, for every session of another token, the Hub entry, the
\* client and agent references, the context, the once, the reconnecting flag
\* and the send channels of its connections as they were, and does not end
\* the process in which an established session of another token runs.
C35_ActsFor(h) ==
    \/ ClientStep(h) \/ AgentStep(h)
    \/ CleanupStep(C(h)) \/ CleanupStep(A(h))
    \/ ClientReadErr(h) \/ AgentReadErr(h)
    \/ \E m \in ClientInputs : ClientRecv(h, m)
    \/ \E m \in AgentInputs : AgentRecv(h, m)

C35_Untouched(s) ==
    /\ hub'[stoken[s]] = hub[stoken[s]]
    /\ stoken'[s] = stoken[s]
    /\ sclient'[s] = sclient[s] /\ sagent'[s] = sagent[s]
    /\ sctx'[s] = sctx[s] /\ once'[s] = once[s] /\ reconn'[s] = reconn[s]
    /\ cmu'[s] = cmu[s] /\ amu'[s] = amu[s]
    /\ \A e \in {sclient[s], sagent[s]} \ {0} :
          /\ send'[e] = send[e] /\ chClosed'[e] = chClosed[e]
          /\ closes'[e] = closes[e]

C35_Other(h, s) ==
    /\ hsess[h] # 0 /\ s # hsess[h]
    /\ stoken[s] # "" /\ stoken[s] # stoken[hsess[h]]

C35_Frame ==
    \A h \in Handlers, s \in Sess :
       (C35_Other(h, s) /\ C35_ActsFor(h)) => C35_Untouched(s)

C35_SessionsIsolated ==
    [][/\ C35_Frame
       /\ \A h \in Handlers, s \in Sess :
             (/\ C35_Other(h, s)
              /\ once[s] = 0 /\ sclient[s] # 0 /\ sagent[s] # 0
              /\ C35_ActsFor(h)) => ~panicked'
      ]_vars

\* C36: reconnection is bounded.  retryCount is between 0 and 4; it changes
\* only by a read error adding one or a read frame setting it to 0; a loop
\* comes to a dial only by a read error that leaves the count at 3 or less,
\* so at most three dials are made without a frame read in between; and a
\* loop whose count is 4 is in the exhaustion branch or in cleanup, or has
\* returned, and dials no more.
C36_Bounded ==
    \A h \in Handlers :
       /\ retry[h] \in 0 .. (MaxAgentRetries + 1)
       /\ pc[A(h)] = "dial" => retry[h] \in 1 .. MaxAgentRetries
       /\ retry[h] = MaxAgentRetries + 1
             => /\ exh[h]
                /\ pc[A(h)] \in {"exit", "exit_w", "done"} \cup InCleanup

C36_Step(h) ==
    /\ retry'[h] # retry[h]
          => \/ retry'[h] = retry[h] + 1 /\ pc[A(h)] = "read" /\ ~AgentGot(h)
             \/ retry'[h] = 0 /\ AgentGot(h)
    /\ (pc[A(h)] # "dial" /\ pc'[A(h)] = "dial")
          => /\ pc[A(h)] = "read"
             /\ retry'[h] = retry[h] + 1
    /\ exh[h] => exh'[h] /\ pc'[A(h)] \notin {"dial", "read", "clear", "succ"}

C37_Step ==
    /\ \A tok \in Tokens :
          (hub[tok] # 0 /\ hub'[tok] # hub[tok])
             => /\ hub'[tok] = 0
                /\ \E t \in Tasks :
                      /\ pc[t] = "cl_remove" /\ pc'[t] = "done"
                      /\ hsess[t[2]] = hub[tok]
    /\ \A t \in Tasks :
          (pc[t] = "cl_remove" /\ pc'[t] = "done")
             => /\ hub[stoken[hsess[t[2]]]] = hsess[t[2]]
                /\ hub' = [hub EXCEPT ![stoken[hsess[t[2]]]] = 0]

C37_RemovesOwnSession == [][C37_Step]_vars

C37_Witness ==
    \E s1, s2 \in Sess :
       /\ s1 # s2 /\ stoken[s1] = stoken[s2] /\ stoken[s1] # ""
       /\ once[s1] = 2 /\ removes[s1] = 1
       /\ hub[stoken[s2]] = s2 /\ sclient[s2] # 0

\* C38: local actions do not depend on the agent link.  While the session's
\* agent is marked reconnecting, a client loop that reads a "local" request
\* goes to handleLocal; a loop holding a local request is never at the
\* reconnecting check or at the "reconnecting" notification; and handleLocal,
\* the client being bound, appends the response with the request's id to the
\* client's send channel and records no notification.
C38_IsLocal(m) == Envelope(m) /\ m.a = MessageTypeLocal

C38_Step(h) ==
    LET s == hsess[h]
        c == sclient[s] IN
    /\ (ClientGot(h) /\ C38_IsLocal(msg'[C(h)].m) /\ reconn[s])
          => pc'[C(h)] = "local"
    /\ (pc'[C(h)] \in {"chk", "notify", "fwd", "fwd_w"})
          => ~C38_IsLocal(msg'[C(h)].m)
    /\ (pc[C(h)] \in {"local", "local_w"} /\ pc'[C(h)] = "top" /\ reconn[s])
          => /\ notes'[s] = notes[s]
             /\ c # 0 =>
                   /\ send'[c] # <<>>
                   /\ send'[c][Len(send'[c])].via = "relay"
                   /\ send'[c][Len(send'[c])].m.t = MessageTypeResponse
                   /\ send'[c][Len(send'[c])].m.r = msg[C(h)].m.r
                   /\ Len(send'[c]) = Len(send[c]) + 1

C38_LocalWhileReconnecting ==
    [][\A h \in Handlers : hsess[h] # 0 => C38_Step(h)]_vars

\* handleLocal is about to answer, with the flag set and the client bound
C38_Witness ==
    \E h \in Handlers :
       /\ hsess[h] # 0 /\ reconn[hsess[h]]
       /\ pc[C(h)] = "local" /\ C38_IsLocal(msg[C(h)].m)
       /\ sclient[hsess[h]] = h /\ ~cmu[hsess[h]]
       /\ ~chClosed[h] /\ send[h] = <<>>
       /\ NoteCount(hsess[h], "reconnecting") = 0

\* C39: in the header-token variant (main.go), a second inbound connection
\* for a token whose session already has a client bound is rejected.  When
\* another connection was bound to the session and the session has not been
\* cleaned up, no step of HandleConnection changes the session's client or
\* agent.
C39_BoundBefore(h, s) ==
    \E h2 \in Handlers \ {h} :
       /\ hsess[h2] = s
       /\ hpc[h2] \in {"go", "done_ok"}
       /\ once[s] = 0
       /\ sclient[s] # 0

C39_Step(h) ==
    (hpc'[h] # hpc[h] /\ hsess[h] # 0 /\ C39_BoundBefore(h, hsess[h]))
       => /\ sclient'[hsess[h]] = sclient[hsess[h]]
          /\ sagent'[hsess[h]] = sagent[hsess[h]]

C39_SecondRejected == [][\A h \in Handlers : C39_Step(h)]_vars

====
